---- MODULE Spec2Model ----
(***************************************************************************)
(* A model of the adaptive coaching-prompt feedback loop of zeb:           *)
(*   - the prompt version store   (src/src/llm/prompt_builder.py)          *)
(*   - the effectiveness analyzer (src/src/llm/coach.py)                   *)
(*   - the coach's reflection and adaptation (src/src/llm/coach.py) with   *)
(*     the assistant part of the context (src/src/context.py)              *)
(*   - feature-request expansion and the JSON it parses (coach.py)         *)
(*   - the productivity patterns of the context (src/src/context.py)       *)
(*   - the record store (src/src/storage/data_store.py)                    *)
(*   - the session logger and the commands that use it                     *)
(*     (src/src/logger.py, src/src/main.py)                                *)
(*                                                                         *)
(* Text is modelled by TLA+ strings, on which TLC evaluates Len, \o and    *)
(* SubSeq, so Python's `in`, `+=` and str.replace are computed character   *)
(* by character.  A Python dict is an ordered sequence of items            *)
(* [key, kind, value], kind being the Python type of the value; a float    *)
(* score is held in tenths (0.8 is 8).  The rates and scores of the        *)
(* reflection are quotients and are held as exact fractions [num, den].    *)
(***************************************************************************)
EXTENDS Integers, Sequences, FiniteSets, TLC

VARIABLES
    prompt_versions,  \* PromptBuilder.prompt_versions: version number -> entry
    versions_file,    \* prompt_dir/versions.json: [exists, data]
    now,              \* the clock read by datetime.now()
    last,             \* the last call on the store: operation, argument, outcome
    calls,            \* history: update_system_prompt calls + successful rollback_prompt calls
    origin,           \* history: for each version, the call that created it
    context,          \* the usage snapshot handed to _analyze_prompt_effectiveness
    effectiveness,    \* the report _analyze_prompt_effectiveness returned
    coaching_style,   \* ProductivityCoach.coaching_style
    last_reflection,  \* ProductivityCoach.last_reflection
    adaptation_history, \* ProductivityCoach.adaptation_history
    assistant,        \* ContextManager.context["assistant"]: memory and adaptations
    context_file,     \* context_dir/context.json, its assistant part
    analysis,         \* the locals of the last reflect_on_coaching call
    applies,          \* history: apply_adaptations calls
    trace,            \* history: the calls made and what each returned
    data_files,       \* DataStore: for each record type, the records of its JSON file
    session_logger,   \* SessionLogger: sessions, current_session and sessions.json
    command           \* the CLI command in progress and its position

vars ==
    <<prompt_versions, versions_file, now, last, calls, origin, context, effectiveness,
      coaching_style, last_reflection, adaptation_history, assistant, context_file,
      analysis, applies, trace, data_files, session_logger, command>>

storeVars == <<prompt_versions, versions_file, now, last, calls, origin>>
coachVars ==
    <<context, effectiveness, coaching_style, last_reflection, adaptation_history,
      assistant, context_file, analysis, applies>>
toolVars == <<trace, data_files, session_logger, command>>

\* ---------------------------------------------------------------- bounds

\* update_system_prompt / rollback_prompt calls in one run
MaxCalls == 3

\* ---------------------------------------------------------------- Python values

Item(k, kind, v) == [key |-> k, kind |-> kind, value |-> v]

Keys(d) == {d[i].key : i \in DOMAIN d}

HasKey(d, k) == k \in Keys(d)

Lookup(d, k) == d[CHOOSE i \in DOMAIN d : d[i].key = k]

Max(S) == CHOOSE x \in S : \A y \in S : y <= x

\* Python `sub in s` on strings
Contains(sub, s) ==
    \E i \in 0..(Len(s) - Len(sub)) : SubSeq(s, i + 1, i + Len(sub)) = sub

\* where `sub` first starts in s
Find(sub, s) ==
    CHOOSE i \in 1..(Len(s) - Len(sub) + 1) :
        /\ SubSeq(s, i, i + Len(sub) - 1) = sub
        /\ \A j \in 1..(i - 1) : SubSeq(s, j, j + Len(sub) - 1) # sub

\* Python s.replace(old, ""): every non-overlapping occurrence, left to right;
\* with old = "" the text is returned as it is
RECURSIVE Replace(_, _)
Replace(s, old) ==
    IF old = "" \/ ~Contains(old, s) THEN s
    ELSE SubSeq(s, 1, Find(old, s) - 1)
           \o Replace(SubSeq(s, Find(old, s) + Len(old), Len(s)), old)

\* ---------------------------------------------------------------- JSON

Digit(d) == SubSeq("0123456789", d + 1, d + 1)

DigitValue(c) == CHOOSE d \in 0..9 : Digit(d) = c

\* str(n), as json.dump writes an int key
RECURSIVE IntToStr(_)
IntToStr(n) ==
    IF n < 10 THEN Digit(n) ELSE IntToStr(n \div 10) \o Digit(n % 10)

\* int(k)
RECURSIVE StrToInt(_)
StrToInt(s) ==
    IF Len(s) = 1 THEN DigitValue(s)
    ELSE 10 * StrToInt(SubSeq(s, 1, Len(s) - 1)) + DigitValue(SubSeq(s, Len(s), Len(s)))

\* ---------------------------------------------------------------- prompt store

\* The first line of the default prompt.  Like the whole text it names none
\* of the analyzer's categories and does contain the word "coach".
DefaultSystemPrompt ==
    "You are a productivity coach helping users stay focused and achieve their goals."

Entry(prompt, timestamp, changes) ==
    [prompt |-> prompt, timestamp |-> timestamp, changes |-> changes]

NoFile == [exists |-> FALSE, data |-> <<>>]

\* a versions.json in the old format: {"system": {"versions": {"1.0": text}}}
OldFormatFile(text) ==
    [exists |-> TRUE,
     data |-> <<Item("system", "dict", <<Item("versions", "dict", <<Item("1.0", "str", text)>>)>>)>>]

\* Versions are only ever inserted as max + 1 and a load keeps the file's order,
\* so the dict's insertion order is the ascending order of its keys.
InOrder(S) ==
    [i \in 1..Cardinality(S) |-> CHOOSE v \in S : Cardinality({w \in S : w <= v}) = i]

\* json.dump writes the int keys as strings
save_prompt_versions(pv) ==
    [exists |-> TRUE,
     data |-> [i \in 1..Cardinality(DOMAIN pv) |->
                 Item(IntToStr(InOrder(DOMAIN pv)[i]), "dict", pv[InOrder(DOMAIN pv)[i]])]]

load_prompt_versions(f, t) ==
    IF ~f.exists
    THEN (1 :> Entry(DefaultSystemPrompt, t, <<>>))
    ELSE IF HasKey(f.data, "system")
    THEN (1 :> Entry(Lookup(Lookup(Lookup(f.data, "system").value, "versions").value, "1.0").value,
                     t, <<>>))
    ELSE [v \in {StrToInt(k) : k \in Keys(f.data)} |->
            Lookup(f.data, CHOOSE k \in Keys(f.data) : StrToInt(k) = v).value]

get_current_system_prompt(pv) == pv[Max(DOMAIN pv)].prompt

\* faulty variant: an addition is appended without the containment test
RECURSIVE ApplyAdditions_NoDedupe(_, _)
ApplyAdditions_NoDedupe(new_prompt, additions) ==
    IF additions = <<>> THEN new_prompt
    ELSE ApplyAdditions_NoDedupe(new_prompt \o "\n" \o Head(additions), Tail(additions))

\* the loop over changes["add"]
RECURSIVE ApplyAdditions(_, _)
ApplyAdditions(new_prompt, additions) ==
    IF additions = <<>> THEN new_prompt
    ELSE ApplyAdditions(IF Contains(Head(additions), new_prompt)
                        THEN new_prompt
                        ELSE new_prompt \o "\n" \o Head(additions),
                        Tail(additions))

\* the loop over changes["remove"]
RECURSIVE ApplyRemovals(_, _)
ApplyRemovals(new_prompt, removals) ==
    IF removals = <<>> THEN new_prompt
    ELSE ApplyRemovals(Replace(new_prompt, Head(removals)), Tail(removals))

\* The loop over improvements["suggested_changes"].items().  Its loop variable
\* is named `changes`, like the parameter of update_system_prompt: st.changes
\* is what the name `changes` is bound to.
RECURSIVE ApplyIssues(_, _)
ApplyIssues(st, issues) ==
    IF issues = <<>> THEN st
    ELSE LET changes == Head(issues).value
             added == ApplyAdditions(st.prompt, Lookup(changes, "add").value)
         IN ApplyIssues([prompt |-> ApplyRemovals(added, Lookup(changes, "remove").value),
                         changes |-> changes,
                         raised |-> FALSE],
                        Tail(issues))

\* faulty variant: every category is let in, whatever the text holds
RECURSIVE ApplyCategories_Ungated(_, _)
ApplyCategories_Ungated(st, items) ==
    IF items = <<>> THEN st
    ELSE LET improvements == Head(items).value
         IN IF ~HasKey(improvements, "suggested_changes")
            THEN [st EXCEPT !.raised = TRUE]
            ELSE ApplyCategories_Ungated(
                     ApplyIssues(st, Lookup(improvements, "suggested_changes").value),
                     Tail(items))

\* The loop over changes.items(): the gate reads new_prompt, the text as the
\* earlier categories left it; a gated-in category without "suggested_changes"
\* raises KeyError.
RECURSIVE ApplyCategories(_, _)
ApplyCategories(st, items) ==
    IF items = <<>> THEN st
    ELSE LET prompt_type == Head(items).key
             improvements == Head(items).value
         IN IF ~Contains(prompt_type, st.prompt)
            THEN ApplyCategories(st, Tail(items))
            ELSE IF ~HasKey(improvements, "suggested_changes")
            THEN [st EXCEPT !.raised = TRUE]
            ELSE ApplyCategories(
                     ApplyIssues(st, Lookup(improvements, "suggested_changes").value),
                     Tail(items))

Raised(pv, f) == [raised |-> TRUE, versions |-> pv, file |-> f, wrote |-> FALSE]

\* faulty variant: the newest version stays in memory and is not written
Returned_Unflushed(pv) ==
    [raised |-> FALSE,
     versions |-> pv,
     file |-> save_prompt_versions([v \in DOMAIN pv \ {Max(DOMAIN pv)} |-> pv[v]]),
     wrote |-> TRUE]

\* the end of a call that returns: the versions are saved
Returned(pv) ==
    [raised |-> FALSE, versions |-> pv, file |-> save_prompt_versions(pv), wrote |-> TRUE]

\* faulty variant: the new entry takes the current version's number
update_system_prompt_Overwrite(pv, f, changes, t) ==
    IF changes.kind # "dict" THEN Raised(pv, f)
    ELSE LET st == ApplyCategories([prompt |-> get_current_system_prompt(pv),
                                    changes |-> changes.value,
                                    raised |-> FALSE],
                                   changes.value)
         IN IF st.raised THEN Raised(pv, f)
            ELSE Returned([v \in DOMAIN pv |->
                             IF v = Max(DOMAIN pv) THEN Entry(st.prompt, t, st.changes)
                             ELSE pv[v]])

\* update_system_prompt(changes) at time t; a `changes` that is no dict has no
\* .items() and raises AttributeError
update_system_prompt(pv, f, changes, t) ==
    IF changes.kind # "dict" THEN Raised(pv, f)
    ELSE LET st == ApplyCategories([prompt |-> get_current_system_prompt(pv),
                                    changes |-> changes.value,
                                    raised |-> FALSE],
                                   changes.value)
         IN IF st.raised THEN Raised(pv, f)
            ELSE Returned(pv @@ ((Max(DOMAIN pv) + 1) :> Entry(st.prompt, t, st.changes)))

RollbackChanges(version) ==
    <<Item("type", "str", "rollback"), Item("from_version", "int", version)>>

\* faulty variant: the text of the current version is copied, not that of `version`
rollback_prompt_CopiesCurrent(pv, f, version, t) ==
    IF version \notin DOMAIN pv THEN Raised(pv, f)
    ELSE Returned(pv @@ ((Max(DOMAIN pv) + 1) :>
                          Entry(get_current_system_prompt(pv), t, RollbackChanges(version))))

\* faulty variant: an unknown version falls back to the current one instead of raising
rollback_prompt_NoCheck(pv, f, version, t) ==
    LET from == IF version \in DOMAIN pv THEN version ELSE Max(DOMAIN pv)
    IN Returned(pv @@ ((Max(DOMAIN pv) + 1) :>
                        Entry(pv[from].prompt, t, RollbackChanges(version))))

rollback_prompt(pv, f, version, t) ==
    IF version \notin DOMAIN pv THEN Raised(pv, f)
    ELSE Returned(pv @@ ((Max(DOMAIN pv) + 1) :>
                          Entry(pv[version].prompt, t, RollbackChanges(version))))

\* PromptBuilder.__init__ on a directory holding file f: load, then save in
\* the new format
new_prompt_builder(f, t) ==
    [versions |-> load_prompt_versions(f, t),
     file |-> save_prompt_versions(load_prompt_versions(f, t))]

\* get_prompt_effectiveness(prompt_type): subscripting a value that is no dict
\* raises TypeError, a missing key KeyError
get_prompt_effectiveness(pv, prompt_type) ==
    LET hits == {v \in DOMAIN pv : HasKey(pv[v].changes, prompt_type)}
        data(v) == Lookup(pv[v].changes, prompt_type)
        bad(v) == \/ data(v).kind # "dict"
                  \/ ~HasKey(data(v).value, "current_score")
                  \/ ~HasKey(data(v).value, "issues")
        history ==
            [i \in 1..Cardinality(hits) |->
                LET v == InOrder(hits)[i]
                IN [version |-> v,
                    timestamp |-> pv[v].timestamp,
                    score |-> Lookup(data(v).value, "current_score").value,
                    issues |-> Lookup(data(v).value, "issues").value]]
    IN IF \E v \in hits : bad(v)
       THEN [raised |-> TRUE, score |-> 0, history |-> <<>>]
       ELSE [raised |-> FALSE,
             score |-> IF history = <<>> THEN 10 ELSE history[Len(history)].score,
             history |-> history]

\* ---------------------------------------------------------------- inputs

Dict(items) == [kind |-> "dict", value |-> items]

Str(text) == [kind |-> "str", value |-> text]

IssueChanges(add, remove) ==
    <<Item("add", "list", add), Item("remove", "list", remove)>>

\* an entry of a change-set as the tests build it
Improvements(score, issues, suggested_changes) ==
    <<Item("current_score", "float", score),
      Item("issues", "list", issues),
      Item("suggested_changes", "dict", suggested_changes)>>

\* an entry as _analyze_prompt_effectiveness reports it: no suggested_changes
Report(score, issues) ==
    <<Item("current_score", "float", score), Item("issues", "list", issues)>>

\* the change-set of tests/test_main.py, test_prompt_builder_adaptation
TestChanges ==
    Dict(<<Item("morning_prompt", "dict",
                Improvements(8, <<"task_clarity">>,
                    <<Item("task_clarity", "dict",
                           IssueChanges(<<"New prompt element">>, <<"Old prompt element">>))>>))>>)

\* a report of the analyzer, passed on as reflect_on_coaching proposes it
ReportChanges ==
    Dict(<<Item("morning_prompt", "dict", Report(6, <<"Tasks often lack clarity">>))>>)

\* two categories, the first one's addition naming the second
ChainedChanges ==
    Dict(<<Item("coach", "dict",
                Improvements(8, <<"focus">>,
                    <<Item("focus", "dict", IssueChanges(<<"See evening_prompt">>, <<>>))>>)),
           Item("evening_prompt", "dict",
                Improvements(6, <<"depth">>,
                    <<Item("depth", "dict", IssueChanges(<<"Ask why">>, <<"You are ">>))>>))>>)

\* an addition that the removal of the same issue cuts
CutChanges ==
    Dict(<<Item("coach", "dict",
                Improvements(8, <<"tone">>,
                    <<Item("tone", "dict", IssueChanges(<<"Be brief!">>, <<"!">>))>>))>>)

\* an addition that is already in both initial prompts, and a removal
TrimChanges ==
    Dict(<<Item("coach", "dict",
                Improvements(7, <<"tone">>,
                    <<Item("tone", "dict", IssueChanges(<<"stay focused">>, <<"productivity ">>))>>))>>)

\* the feedback text that main.py's feedback command passes
FeedbackText == Str("Be kind")

UpdateArgs ==
    {TestChanges, ReportChanges, ChainedChanges, CutChanges, TrimChanges, Dict(<<>>), FeedbackText}

RollbackArgs == 0..(MaxCalls + 1)

InitialFiles == {NoFile, OldFormatFile("Use morning_prompt to coach and stay focused.")}

Categories == {"morning_prompt", "evening_prompt", "coach"}

EmptyContext == [check_ins |-> <<>>, tasks |-> <<>>, journal_entries |-> <<>>]

NotAnalyzed == [done |-> FALSE, report |-> <<>>]

\* Python None
None == [kind |-> "NoneType", value |-> <<>>]

\* the coaching style a new ProductivityCoach starts with
InitialCoachingStyle ==
    <<Item("tone", "str", "assertive"),
      Item("detail_level", "str", "balanced"),
      Item("focus_areas", "list", <<"task_completion", "time_management", "goal_tracking">>),
      Item("check_in_frequency", "str", "twice_daily"),
      Item("reminder_intensity", "str", "moderate")>>

\* the assistant part of the context a new ContextManager starts with
InitialAssistant == [memory |-> <<>>, adaptations |-> <<>>]

NotReflected ==
    [done |-> FALSE, task_completion_rate |-> None, engagement_patterns |-> <<>>,
     mood_patterns |-> <<>>, adaptations |-> <<>>]

\* DataStore.__init__ on an empty directory: every file holds []
NoRecords == [t \in {"Task", "JournalEntry"} |-> <<>>]

\* SessionLogger.__init__ on an empty directory
NewSessionLogger == [sessions |-> <<>>, current_session |-> None, file |-> <<>>]

\* no CLI command is running
Idle == [stage |-> "idle", name |-> "", session_id |-> "", ended |-> 0, raised |-> FALSE]

\* a new ProductivityCoach, ContextManager, DataStore and SessionLogger on an
\* empty directory
NewCoach ==
    /\ coaching_style = InitialCoachingStyle
    /\ last_reflection = None
    /\ adaptation_history = <<>>
    /\ assistant = InitialAssistant
    /\ context_file = InitialAssistant
    /\ analysis = NotReflected
    /\ applies = <<>>
    /\ trace = <<>>
    /\ data_files = NoRecords
    /\ session_logger = NewSessionLogger
    /\ command = Idle

\* ---------------------------------------------------------------- the store's operations

Call(op, changes, version, raised, wrote) ==
    [op |-> op, changes |-> changes, version |-> version, raised |-> raised, wrote |-> wrote]

Init ==
    \E f \in InitialFiles :
        /\ prompt_versions = new_prompt_builder(f, 0).versions
        /\ versions_file = new_prompt_builder(f, 0).file
        /\ now = 1
        /\ last = Call("construct", Dict(<<>>), 0, FALSE, TRUE)
        /\ calls = 0
        /\ origin = (1 :> Call("construct", Dict(<<>>), 0, FALSE, TRUE))
        /\ context = EmptyContext
        /\ effectiveness = NotAnalyzed
        /\ NewCoach

UpdateSystemPrompt(changes) ==
    /\ calls < MaxCalls
    /\ LET r == update_system_prompt(prompt_versions, versions_file, changes, now)
           call == Call("update_system_prompt", changes, 0, r.raised, r.wrote)
       IN /\ prompt_versions' = r.versions
          /\ versions_file' = r.file
          /\ now' = IF r.raised THEN now ELSE now + 1
          /\ last' = call
          /\ calls' = calls + 1
          /\ origin' = [v \in DOMAIN r.versions |->
                           IF v \in DOMAIN origin THEN origin[v] ELSE call]
    /\ UNCHANGED coachVars
    /\ UNCHANGED toolVars

RollbackPrompt(version) ==
    /\ calls < MaxCalls
    /\ LET r == rollback_prompt(prompt_versions, versions_file, version, now)
           call == Call("rollback_prompt", Dict(<<>>), version, r.raised, r.wrote)
       IN /\ prompt_versions' = r.versions
          /\ versions_file' = r.file
          /\ now' = IF r.raised THEN now ELSE now + 1
          /\ last' = call
          /\ calls' = IF r.raised THEN calls ELSE calls + 1
          /\ origin' = [v \in DOMAIN r.versions |->
                           IF v \in DOMAIN origin THEN origin[v] ELSE call]
    /\ UNCHANGED coachVars
    /\ UNCHANGED toolVars

\* a new PromptBuilder on the same directory takes the place of the old one
NewPromptBuilder ==
    /\ prompt_versions' = new_prompt_builder(versions_file, now).versions
    /\ versions_file' = new_prompt_builder(versions_file, now).file
    /\ last' = Call("construct", Dict(<<>>), 0, FALSE, TRUE)
    /\ UNCHANGED <<now, calls, origin>>
    /\ UNCHANGED coachVars
    /\ UNCHANGED toolVars

Next ==
    \/ \E changes \in UpdateArgs : UpdateSystemPrompt(changes)
    \/ \E version \in RollbackArgs : RollbackPrompt(version)
    \/ NewPromptBuilder

Spec == Init /\ [][Next]_vars

\* ---------------------------------------------------------------- claims on the store

CurrentVersion == Max(DOMAIN prompt_versions)

UpdateReturned == last.op = "update_system_prompt" /\ ~last.raised

RollbackReturned == last.op = "rollback_prompt" /\ ~last.raised

\* C1: from a store holding exactly version 1, after any update_system_prompt
\* calls and successful rollback_prompt calls the version numbers are 1..n,
\* n = 1 + the number of those calls.
C1_VersionsCountCalls == DOMAIN prompt_versions = 1..(1 + calls)

\* C2: rollback_prompt(v) for a v of the history makes the current prompt the
\* text stored at v, and the appended version carries
\* changes = {type: rollback, from_version: v}.
C2_RollbackRoundTrip ==
    [][(last'.op = "rollback_prompt" /\ last'.version \in DOMAIN prompt_versions)
         => /\ ~last'.raised
            /\ get_current_system_prompt(prompt_versions')
                  = prompt_versions[last'.version].prompt
            /\ DOMAIN prompt_versions' = DOMAIN prompt_versions \cup {CurrentVersion + 1}
            /\ prompt_versions'[CurrentVersion + 1].changes
                  = <<Item("type", "str", "rollback"),
                      Item("from_version", "int", last'.version)>>]_vars

\* C2 witness: a rollback to a version whose text differs from the text that
\* was current before it
C2_Witness ==
    /\ RollbackReturned
    /\ last.version < CurrentVersion - 1
    /\ prompt_versions[last.version].prompt # prompt_versions[CurrentVersion - 1].prompt
    /\ get_current_system_prompt(prompt_versions) = prompt_versions[last.version].prompt

\* C3: the history is append-only: a version that exists keeps its number,
\* prompt text, timestamp and changes through every later call.
C3_AppendOnly ==
    [][\A k \in DOMAIN prompt_versions :
          /\ k \in DOMAIN prompt_versions'
          /\ prompt_versions'[k] = prompt_versions[k]]_vars

\* C3 witness: an update has changed the text while older versions exist
C3_Witness ==
    /\ UpdateReturned
    /\ CurrentVersion >= 3
    /\ prompt_versions[CurrentVersion].prompt # prompt_versions[CurrentVersion - 1].prompt
    /\ prompt_versions[CurrentVersion - 1].prompt # prompt_versions[1].prompt

\* C4: rollback_prompt(v) with v not in the history raises, appends nothing,
\* leaves the history and the current prompt as they were and does not write
\* the versions file.
C4_RollbackUnknown ==
    [][(last'.op = "rollback_prompt" /\ last'.version \notin DOMAIN prompt_versions)
         => /\ last'.raised
            /\ ~last'.wrote
            /\ prompt_versions' = prompt_versions
            /\ versions_file' = versions_file]_vars

\* C4 witness: a rollback to an unknown version on a history of several versions
C4_Witness ==
    /\ last.op = "rollback_prompt"
    /\ last.raised
    /\ last.version \notin DOMAIN prompt_versions
    /\ CurrentVersion >= 2

\* C5: after update_system_prompt(cs) returns, the changes recorded in the new
\* version equal cs.
C5_ChangesRecorded ==
    UpdateReturned => prompt_versions[CurrentVersion].changes = last.changes.value

\* every add / remove string of a change-set
Strings(cs, field) ==
    LET Range(q) == {q[i] : i \in DOMAIN q}
        Issues(c) == IF HasKey(c.value, "suggested_changes")
                     THEN Range(Lookup(c.value, "suggested_changes").value)
                     ELSE {}
    IN UNION {Range(Lookup(issue.value, field).value) :
                issue \in UNION {Issues(c) : c \in Range(cs)}}

AddsPresent(cs, text) == \A a \in Strings(cs, "add") : Contains(a, text)

RemovesAbsent(cs, text) == \A r \in Strings(cs, "remove") : ~Contains(r, text)

UpdateReturns ==
    /\ last'.op = "update_system_prompt"
    /\ ~last'.raised
    /\ last'.changes.kind = "dict"

TextKept ==
    /\ DOMAIN prompt_versions' = DOMAIN prompt_versions \cup {CurrentVersion + 1}
    /\ prompt_versions'[CurrentVersion + 1].prompt = get_current_system_prompt(prompt_versions)

GatedIn(cs, text) == SelectSeq(cs, LAMBDA c : Contains(c.key, text))

\* C7: a category whose name is not in the prompt that was current when
\* update_system_prompt started contributes nothing to the new text, whatever
\* the other categories add: the new text is the one the change-set without
\* those categories gives.
C7_GateReadsStartingText ==
    [][UpdateReturns
         => prompt_versions'[CurrentVersion + 1].prompt
              = ApplyCategories(
                    [prompt |-> get_current_system_prompt(prompt_versions),
                     changes |-> last'.changes.value,
                     raised |-> FALSE],
                    GatedIn(last'.changes.value,
                            get_current_system_prompt(prompt_versions))).prompt]_vars

\* the versions update_system_prompt created from a change-set with an entry
\* for prompt_type
CreatedFor(prompt_type) ==
    {v \in DOMAIN prompt_versions :
        /\ origin[v].op = "update_system_prompt"
        /\ origin[v].changes.kind = "dict"
        /\ HasKey(origin[v].changes.value, prompt_type)}

ExpectedHistory(prompt_type) ==
    [i \in 1..Cardinality(CreatedFor(prompt_type)) |->
        LET v == InOrder(CreatedFor(prompt_type))[i]
            given == Lookup(origin[v].changes.value, prompt_type).value
        IN [version |-> v,
            timestamp |-> prompt_versions[v].timestamp,
            score |-> Lookup(given, "current_score").value,
            issues |-> Lookup(given, "issues").value]]

\* C8: get_prompt_effectiveness(category) has one history entry, in version
\* order, for every version update_system_prompt created from a change-set
\* with an entry for the category, and no other; its score is that of the
\* latest entry, 1.0 without one.
C8_EffectivenessHistory ==
    \A prompt_type \in Categories :
        LET got == get_prompt_effectiveness(prompt_versions, prompt_type)
            want == ExpectedHistory(prompt_type)
        IN /\ ~got.raised
           /\ got.history = want
           /\ got.score = IF want = <<>> THEN 10 ELSE want[Len(want)].score

\* C9: what a new PromptBuilder on the same directory loads is what the
\* running one holds: the version numbers, each version's prompt and changes,
\* and the current prompt.
C9_FlushedBeforeReturn ==
    LET loaded == new_prompt_builder(versions_file, now).versions
    IN /\ DOMAIN loaded = DOMAIN prompt_versions
       /\ \A v \in DOMAIN loaded :
             /\ loaded[v].prompt = prompt_versions[v].prompt
             /\ loaded[v].changes = prompt_versions[v].changes
       /\ get_current_system_prompt(loaded) = get_current_system_prompt(prompt_versions)

\* C9 witness: an update and a rollback have returned, the update with a
\* change of text
C9_Witness ==
    /\ RollbackReturned
    /\ CurrentVersion >= 3
    /\ origin[CurrentVersion - 1].op = "update_system_prompt"
    /\ prompt_versions[CurrentVersion - 1].prompt # prompt_versions[1].prompt
    /\ new_prompt_builder(versions_file, now).versions = prompt_versions

\* ---------------------------------------------------------------- effectiveness analyzer

\* check-ins of one kind a snapshot may hold
MaxPerKind == 3

\* the penalties, in tenths
IssuePenalty == 2

BreakdownPenalty == 3

UpperCase == "ABCDEFGHIJKLMNOPQRSTUVWXYZ"

LowerCase == "abcdefghijklmnopqrstuvwxyz"

\* the lower-case letter of each upper-case letter
LowerOf ==
    [c \in {SubSeq(UpperCase, i, i) : i \in 1..26} |->
        LET i == CHOOSE i \in 1..26 : SubSeq(UpperCase, i, i) = c
        IN SubSeq(LowerCase, i, i)]

\* str.lower()
Lower(s) ==
    LET low(c) == IF c \in DOMAIN LowerOf THEN LowerOf[c] ELSE c
        RECURSIVE go(_)
        go(i) == IF i > Len(s) THEN "" ELSE low(SubSeq(s, i, i)) \o go(i + 1)
    IN go(1)

\* sum(1 for ... if ...), given the condition's value for each element
Count(flags) == Cardinality({i \in DOMAIN flags : flags[i]})

\* any(...), given the condition's value for each element
AnyOf(flags) == \E i \in DOMAIN flags : flags[i]

\* faulty variant: the threshold itself triggers
Exceeds_OrEqual(count, n, tenths) == 10 * count >= tenths * n

\* count / n > tenths / 10, n > 0
Exceeds(count, n, tenths) == 10 * count > tenths * n

Floor0(score) == IF score < 0 THEN 0 ELSE score

\* "unclear" in str(p).lower() or "need to" in str(p).lower(), for some priority
Unclear(c) ==
    AnyOf([i \in DOMAIN c.priorities |->
             \/ Contains("unclear", Lower(c.priorities[i]))
             \/ Contains("need to", Lower(c.priorities[i]))])

\* faulty variant: the second heuristic sets the score instead of lowering it
MorningReport_NoCompound(morning_check_ins) ==
    LET n == Len(morning_check_ins)
        clarity == Exceeds(Count([i \in 1..n |-> Unclear(morning_check_ins[i])]), n, 3)
        unset == Exceeds(Count([i \in 1..n |-> morning_check_ins[i].priorities = <<>>]), n, 2)
    IN Report(Floor0(IF unset THEN 10 - IssuePenalty
                     ELSE IF clarity THEN 10 - IssuePenalty ELSE 10),
              (IF clarity THEN <<"Tasks often lack clarity">> ELSE <<>>)
                \o (IF unset THEN <<"Priorities not consistently set">> ELSE <<>>))

\* the morning_prompt entry, for a non-empty list of morning check-ins
MorningReport(morning_check_ins) ==
    LET n == Len(morning_check_ins)
        clarity == Exceeds(Count([i \in 1..n |-> Unclear(morning_check_ins[i])]), n, 3)
        unset == Exceeds(Count([i \in 1..n |-> morning_check_ins[i].priorities = <<>>]), n, 2)
    IN Report(Floor0(10 - (IF clarity THEN IssuePenalty ELSE 0)
                        - (IF unset THEN IssuePenalty ELSE 0)),
              (IF clarity THEN <<"Tasks often lack clarity">> ELSE <<>>)
                \o (IF unset THEN <<"Priorities not consistently set">> ELSE <<>>))

\* any("completed" in str(v).lower() for v in c.values()): the values of a
\* check-in that can hold the word are its type and its priorities
Tracked(c) ==
    \/ Contains("completed", Lower(c.type))
    \/ AnyOf([i \in DOMAIN c.priorities |-> Contains("completed", Lower(c.priorities[i]))])

\* the evening_prompt entry, for a non-empty list of evening check-ins
EveningReport(evening_check_ins) ==
    LET n == Len(evening_check_ins)
        shallow == Exceeds(Count([i \in 1..n |-> Len(evening_check_ins[i].priorities) < 2]), n, 3)
        untracked == Exceeds(Count([i \in 1..n |-> ~Tracked(evening_check_ins[i])]), n, 2)
    IN Report(Floor0(10 - (IF shallow THEN IssuePenalty ELSE 0)
                        - (IF untracked THEN IssuePenalty ELSE 0)),
              (IF shallow THEN <<"Reflections lack depth">> ELSE <<>>)
                \o (IF untracked THEN <<"Progress not consistently tracked">> ELSE <<>>))

\* "todo" in str(subtask).lower() or "need to" in str(subtask).lower(), for
\* some subtask
Vague(task) ==
    AnyOf([i \in DOMAIN task.subtasks |->
             \/ Contains("todo", Lower(task.subtasks[i]))
             \/ Contains("need to", Lower(task.subtasks[i]))])

\* the task_breakdown_prompt entry, for a non-empty list of tasks
TaskBreakdownReport(tasks) ==
    LET n == Len(tasks)
        incomplete == Exceeds(Count([i \in 1..n |-> /\ tasks[i].status # "done"
                                                    /\ Len(tasks[i].subtasks) > 0]), n, 4)
        vague == Exceeds(Count([i \in 1..n |-> Vague(tasks[i])]), n, 3)
    IN Report(Floor0(10 - (IF incomplete THEN BreakdownPenalty ELSE 0)
                        - (IF vague THEN IssuePenalty ELSE 0)),
              (IF incomplete THEN <<"Task breakdowns not leading to completion">> ELSE <<>>)
                \o (IF vague THEN <<"Subtasks often lack specificity">> ELSE <<>>))

\* faulty variant: a category without records is reported with a full score
analyze_prompt_effectiveness_Defaulted(ctx) ==
    LET morning_check_ins == SelectSeq(ctx.check_ins, LAMBDA c : c.type = "morning")
        evening_check_ins == SelectSeq(ctx.check_ins, LAMBDA c : c.type = "evening")
    IN <<Item("morning_prompt", "dict",
              IF morning_check_ins # <<>> THEN MorningReport(morning_check_ins)
              ELSE Report(10, <<>>)),
         Item("evening_prompt", "dict",
              IF evening_check_ins # <<>> THEN EveningReport(evening_check_ins)
              ELSE Report(10, <<>>)),
         Item("task_breakdown_prompt", "dict",
              IF ctx.tasks # <<>> THEN TaskBreakdownReport(ctx.tasks)
              ELSE Report(10, <<>>))>>

\* _analyze_prompt_effectiveness(context): a dict with an entry per category
\* that has records
analyze_prompt_effectiveness(ctx) ==
    LET morning_check_ins == SelectSeq(ctx.check_ins, LAMBDA c : c.type = "morning")
        evening_check_ins == SelectSeq(ctx.check_ins, LAMBDA c : c.type = "evening")
    IN (IF morning_check_ins # <<>>
        THEN <<Item("morning_prompt", "dict", MorningReport(morning_check_ins))>> ELSE <<>>)
         \o (IF evening_check_ins # <<>>
             THEN <<Item("evening_prompt", "dict", EveningReport(evening_check_ins))>> ELSE <<>>)
         \o (IF ctx.tasks # <<>>
             THEN <<Item("task_breakdown_prompt", "dict", TaskBreakdownReport(ctx.tasks))>>
             ELSE <<>>)

\* ---------------------------------------------------------------- snapshots

CheckIn(type, priorities) == [type |-> type, priorities |-> priorities]

Task(status, subtasks) == [status |-> status, subtasks |-> subtasks]

\* the kinds of record the heuristics tell apart
CheckInKinds ==
    <<CheckIn("morning", <<"unclear task", "Need to do something">>),
      CheckIn("morning", <<>>),
      CheckIn("morning", <<"write report", "review code">>),
      CheckIn("evening", <<"task1">>),
      CheckIn("evening", <<"Completed report", "task2">>),
      CheckIn("evening", <<"task1", "task2">>)>>

TaskKinds ==
    <<Task("in_progress", <<"TODO something", "need to do another thing">>),
      Task("in_progress", <<"write the parser">>),
      Task("done", <<"todo: tidy up">>),
      Task("done", <<>>)>>

\* counts[i] copies of kinds[i], kind after kind
RECURSIVE Copies(_, _, _)
Copies(kinds, counts, i) ==
    IF i > Len(kinds) THEN <<>>
    ELSE [j \in 1..counts[i] |-> kinds[i]] \o Copies(kinds, counts, i + 1)

\* morning check-ins a snapshot of the morning category may hold
MaxMorning == 10

\* snapshots of one category, up to MaxPerKind records of each kind, snapshots
\* that mix the categories with at most one record of each kind, and snapshots
\* of up to MaxMorning morning check-ins
Contexts ==
    {[check_ins |-> Copies(CheckInKinds, c, 1), tasks |-> <<>>, journal_entries |-> <<>>] :
        c \in {c \in [1..6 -> 0..MaxPerKind] : \A i \in 4..6 : c[i] = 0}}
    \cup {[check_ins |-> Copies(CheckInKinds, c, 1), tasks |-> <<>>, journal_entries |-> <<>>] :
        c \in {c \in [1..6 -> 0..MaxPerKind] : \A i \in 1..3 : c[i] = 0}}
    \cup {[check_ins |-> <<>>, tasks |-> Copies(TaskKinds, c, 1), journal_entries |-> <<>>] :
        c \in [1..4 -> 0..MaxPerKind]}
    \cup {[check_ins |-> Copies(CheckInKinds, c, 1), tasks |-> Copies(TaskKinds, t, 1),
      journal_entries |-> <<>>] :
        c \in [1..6 -> 0..1], t \in [1..4 -> 0..1]}
    \cup {[check_ins |-> Copies(CheckInKinds, c, 1), tasks |-> <<>>, journal_entries |-> <<>>] :
        c \in {c \in [1..6 -> 0..MaxMorning] :
                 /\ c[1] + c[2] + c[3] <= MaxMorning
                 /\ \A i \in 4..6 : c[i] = 0}}

InitAnalyzer ==
    /\ prompt_versions = new_prompt_builder(NoFile, 0).versions
    /\ versions_file = new_prompt_builder(NoFile, 0).file
    /\ now = 1
    /\ last = Call("construct", Dict(<<>>), 0, FALSE, TRUE)
    /\ calls = 0
    /\ origin = (1 :> Call("construct", Dict(<<>>), 0, FALSE, TRUE))
    /\ context \in Contexts
    /\ effectiveness = NotAnalyzed
    /\ NewCoach

AnalyzePromptEffectiveness ==
    /\ ~effectiveness.done
    /\ effectiveness' = [done |-> TRUE, report |-> analyze_prompt_effectiveness(context)]
    /\ UNCHANGED <<context, coaching_style, last_reflection, adaptation_history,
                   assistant, context_file, analysis, applies>>
    /\ UNCHANGED storeVars
    /\ UNCHANGED toolVars

NextAnalyzer == AnalyzePromptEffectiveness

SpecAnalyzer == InitAnalyzer /\ [][NextAnalyzer]_vars

\* ---------------------------------------------------------------- claims on the analyzer

\* the penalty the claim gives an issue, in tenths
Penalty(issue) ==
    IF issue = "Task breakdowns not leading to completion" THEN 3 ELSE 2

RECURSIVE Penalties(_)
Penalties(issues) ==
    IF issues = <<>> THEN 0 ELSE Penalty(Head(issues)) + Penalties(Tail(issues))

ReportOf(prompt_type) == Lookup(effectiveness.report, prompt_type).value

ScoreOf(prompt_type) == Lookup(ReportOf(prompt_type), "current_score").value

IssuesOf(prompt_type) == Lookup(ReportOf(prompt_type), "issues").value

\* C10: for every category of the report, current_score is 1.0 less the
\* penalties of exactly the issues listed for it (0.2 each, 0.3 for "Task
\* breakdowns not leading to completion"), and lies in [0.0, 1.0].
C10_ScoreIsOneLessPenalties ==
    effectiveness.done =>
        \A prompt_type \in Keys(effectiveness.report) :
            /\ ScoreOf(prompt_type) = 10 - Penalties(IssuesOf(prompt_type))
            /\ ScoreOf(prompt_type) >= 0
            /\ ScoreOf(prompt_type) <= 10

\* C10 witness: both heuristics of a category have triggered, in two categories
C10_Witness ==
    /\ effectiveness.done
    /\ Keys(effectiveness.report) = {"morning_prompt", "task_breakdown_prompt"}
    /\ Len(IssuesOf("morning_prompt")) = 2
    /\ ScoreOf("morning_prompt") = 6
    /\ Len(IssuesOf("task_breakdown_prompt")) = 2
    /\ ScoreOf("task_breakdown_prompt") = 5

\* C11: the report has an entry for morning_prompt exactly when the snapshot
\* has a morning check-in, for evening_prompt exactly when it has an evening
\* check-in, for task_breakdown_prompt exactly when it has a task, and no
\* other entry; the empty snapshot gives the empty report.
C11_CategoriesIffRecords ==
    effectiveness.done =>
        /\ HasKey(effectiveness.report, "morning_prompt")
             <=> (\E i \in DOMAIN context.check_ins : context.check_ins[i].type = "morning")
        /\ HasKey(effectiveness.report, "evening_prompt")
             <=> (\E i \in DOMAIN context.check_ins : context.check_ins[i].type = "evening")
        /\ HasKey(effectiveness.report, "task_breakdown_prompt") <=> context.tasks # <<>>
        /\ Keys(effectiveness.report)
             \subseteq {"morning_prompt", "evening_prompt", "task_breakdown_prompt"}
        /\ (context.check_ins = <<>> /\ context.tasks = <<>>) => effectiveness.report = <<>>

\* C11 witness: a snapshot with evening check-ins and tasks and no morning
\* check-in has been analysed
C11_Witness ==
    /\ effectiveness.done
    /\ context.tasks # <<>>
    /\ context.check_ins # <<>>
    /\ \A i \in DOMAIN context.check_ins : context.check_ins[i].type = "evening"
    /\ Keys(effectiveness.report) = {"evening_prompt", "task_breakdown_prompt"}

\* the morning check-ins of the snapshot
MorningIndexes == {i \in DOMAIN context.check_ins : context.check_ins[i].type = "morning"}

\* those with a priority containing "unclear" or "need to", in any case
UnclearIndexes ==
    {i \in MorningIndexes :
        \E k \in DOMAIN context.check_ins[i].priorities :
            \/ Contains("unclear", Lower(context.check_ins[i].priorities[k]))
            \/ Contains("need to", Lower(context.check_ins[i].priorities[k]))}

\* those with empty priorities
EmptyIndexes == {i \in MorningIndexes : context.check_ins[i].priorities = <<>>}

IssueSet(prompt_type) == {IssuesOf(prompt_type)[i] : i \in DOMAIN IssuesOf(prompt_type)}

\* C12: with n >= 1 morning check-ins, u of them unclear and e of them with
\* empty priorities, "Tasks often lack clarity" is an issue iff u/n > 0.3 and
\* "Priorities not consistently set" iff e/n > 0.2, both strictly; n = 10,
\* u = 4, e = 3 gives both issues and the score 0.6.
C12_MorningThresholds ==
    (effectiveness.done /\ MorningIndexes # {}) =>
        LET n == Cardinality(MorningIndexes)
            u == Cardinality(UnclearIndexes)
            e == Cardinality(EmptyIndexes)
        IN /\ "Tasks often lack clarity" \in IssueSet("morning_prompt") <=> 10 * u > 3 * n
           /\ "Priorities not consistently set" \in IssueSet("morning_prompt") <=> 10 * e > 2 * n
           /\ (n = 10 /\ u = 4 /\ e = 3) =>
                 /\ IssuesOf("morning_prompt")
                      = <<"Tasks often lack clarity", "Priorities not consistently set">>
                 /\ ScoreOf("morning_prompt") = 6

\* C12 witness: ten morning check-ins, four unclear and three without
\* priorities, have been analysed
C12_Witness ==
    /\ effectiveness.done
    /\ Cardinality(MorningIndexes) = 10
    /\ Cardinality(UnclearIndexes) = 4
    /\ Cardinality(EmptyIndexes) = 3
    /\ ScoreOf("morning_prompt") = 6

\* ten morning check-ins of which exactly three are unclear: the ratio is the
\* threshold and the issue is not raised
C12_AtThreshold ==
    /\ effectiveness.done
    /\ Cardinality(MorningIndexes) = 10
    /\ Cardinality(UnclearIndexes) = 3
    /\ "Tasks often lack clarity" \notin IssueSet("morning_prompt")

\* ---------------------------------------------------------------- the coach's analyses

RECURSIVE GCD(_, _)
GCD(a, b) == IF b = 0 THEN a ELSE GCD(b, a % b)

\* the float num / den, den > 0, as a fraction in lowest terms
Frac(num, den) == [num |-> num \div GCD(num, den), den |-> den \div GCD(num, den)]

FracMul(a, b) == Frac(a.num * b.num, a.den * b.den)

FracAdd(a, b) == Frac(a.num * b.den + b.num * a.den, a.den * b.den)

FracLess(a, b) == a.num * b.den < b.num * a.den

\* min(a, b)
FracMin(a, b) == IF FracLess(b, a) THEN b ELSE a

\* 2 per day for 7 days
ExpectedCheckIns == 14

\* the days journal entries are averaged over
JournalDays == 7

\* _analyze_task_completion(tasks)
analyze_task_completion(tasks) ==
    IF tasks = <<>> THEN Frac(0, 1)
    ELSE Frac(Count([i \in DOMAIN tasks |-> tasks[i].status = "done"]), Len(tasks))

\* faulty variant: the score is clamped to 1.0
analyze_user_engagement_Clamped(check_ins, journal_entries) ==
    LET actual_check_ins == Len(check_ins)
        journal_frequency == Frac(Len(journal_entries), JournalDays)
        engagement_score ==
            FracAdd(FracMul(Frac(actual_check_ins, ExpectedCheckIns), Frac(7, 10)),
                    FracMul(FracMin(journal_frequency, Frac(1, 1)), Frac(3, 10)))
    IN <<Item("engagement_score", "float", FracMin(engagement_score, Frac(1, 1))),
         Item("check_in_adherence", "float", Frac(actual_check_ins, ExpectedCheckIns)),
         Item("journal_frequency", "float", journal_frequency)>>

\* _analyze_user_engagement(check_ins, journal_entries)
analyze_user_engagement(check_ins, journal_entries) ==
    LET actual_check_ins == Len(check_ins)
        journal_frequency == Frac(Len(journal_entries), JournalDays)
        engagement_score ==
            FracAdd(FracMul(Frac(actual_check_ins, ExpectedCheckIns), Frac(7, 10)),
                    FracMul(FracMin(journal_frequency, Frac(1, 1)), Frac(3, 10)))
    IN <<Item("engagement_score", "float", engagement_score),
         Item("check_in_adherence", "float", Frac(actual_check_ins, ExpectedCheckIns)),
         Item("journal_frequency", "float", journal_frequency)>>

StressWords == <<"stress", "overwhelm", "anxiety", "tired">>

PositiveMoods == {Str("happy"), Str("productive"), Str("energetic")}

NegativeMoods == {Str("stressed"), Str("frustrated"), Str("exhausted")}

\* any(word in entry["content"].lower() for word in [...])
Stressed(entry) ==
    LET content == Lower(entry.content)
    IN AnyOf([w \in DOMAIN StressWords |-> Contains(StressWords[w], content)])

\* faulty variant: the threshold itself counts
MoreThan_OrEqual(count, n, tenths) == 10 * count >= n * tenths

\* count > n * tenths / 10
MoreThan(count, n, tenths) == 10 * count > n * tenths

\* the trend of a non-empty list of moods
MoodTrend(moods) ==
    LET positive_moods == Count([i \in DOMAIN moods |-> moods[i] \in PositiveMoods])
        negative_moods == Count([i \in DOMAIN moods |-> moods[i] \in NegativeMoods])
    IN IF MoreThan(positive_moods, Len(moods), 6) THEN "positive"
       ELSE IF MoreThan(negative_moods, Len(moods), 4) THEN "negative"
       ELSE "neutral"

\* faulty variant: the second test is an elif of the first, so "high" is never set
StressLevel_Elif(journal_entries) ==
    LET stress_indicators ==
            Count([i \in DOMAIN journal_entries |-> Stressed(journal_entries[i])])
    IN IF MoreThan(stress_indicators, Len(journal_entries), 3) THEN "moderate"
       ELSE IF MoreThan(stress_indicators, Len(journal_entries), 6) THEN "high"
       ELSE "low"

\* the stress level of a non-empty list of journal entries
StressLevel(journal_entries) ==
    LET stress_indicators ==
            Count([i \in DOMAIN journal_entries |-> Stressed(journal_entries[i])])
        stress_level == IF MoreThan(stress_indicators, Len(journal_entries), 3)
                        THEN "moderate" ELSE "low"
    IN IF MoreThan(stress_indicators, Len(journal_entries), 6) THEN "high"
       ELSE stress_level

\* _analyze_mood_patterns(journal_entries)
analyze_mood_patterns(journal_entries) ==
    IF journal_entries = <<>>
    THEN <<Item("trend", "str", "neutral"), Item("stress_level", "str", "moderate")>>
    ELSE <<Item("trend", "str",
                MoodTrend([i \in DOMAIN journal_entries |-> journal_entries[i].mood])),
           Item("stress_level", "str", StressLevel(journal_entries))>>

\* ---------------------------------------------------------------- adaptations

Value(d, k) == Lookup(d, k).value

\* faulty variant: the strict tone is tested first
Tone_StrictFirst(task_completion_rate, mood_patterns) ==
    IF /\ FracLess(task_completion_rate, Frac(5, 10))
       /\ Value(mood_patterns, "trend") # "negative"
    THEN <<Item("tone", "str", "strict")>>
    ELSE IF Value(mood_patterns, "stress_level") = "high"
    THEN <<Item("tone", "str", "supportive")>>
    ELSE <<>>

\* the tone adaptation, if any
Tone(task_completion_rate, mood_patterns) ==
    IF Value(mood_patterns, "stress_level") = "high"
    THEN <<Item("tone", "str", "supportive")>>
    ELSE IF /\ FracLess(task_completion_rate, Frac(5, 10))
            /\ Value(mood_patterns, "trend") # "negative"
    THEN <<Item("tone", "str", "strict")>>
    ELSE <<>>

\* the detail_level adaptation, if any
DetailLevel(engagement_patterns) ==
    IF FracLess(Value(engagement_patterns, "engagement_score"), Frac(5, 10))
    THEN <<Item("detail_level", "str", "minimal")>>
    ELSE IF FracLess(Frac(8, 10), Value(engagement_patterns, "engagement_score"))
    THEN <<Item("detail_level", "str", "detailed")>>
    ELSE <<>>

\* faulty variant: the list is stored even when it is empty
FocusAreas_Always(task_completion_rate, engagement_patterns, mood_patterns) ==
    <<Item("focus_areas", "list",
           (IF FracLess(task_completion_rate, Frac(7, 10))
            THEN <<"task_completion">> ELSE <<>>)
             \o (IF FracLess(Value(engagement_patterns, "check_in_adherence"), Frac(7, 10))
                 THEN <<"consistency">> ELSE <<>>)
             \o (IF Value(mood_patterns, "stress_level") \in {"moderate", "high"}
                 THEN <<"stress_management">> ELSE <<>>))>>

\* the focus_areas adaptation, if any
FocusAreas(task_completion_rate, engagement_patterns, mood_patterns) ==
    LET focus_areas ==
            (IF FracLess(task_completion_rate, Frac(7, 10))
             THEN <<"task_completion">> ELSE <<>>)
              \o (IF FracLess(Value(engagement_patterns, "check_in_adherence"), Frac(7, 10))
                  THEN <<"consistency">> ELSE <<>>)
              \o (IF Value(mood_patterns, "stress_level") \in {"moderate", "high"}
                  THEN <<"stress_management">> ELSE <<>>)
    IN IF focus_areas # <<>> THEN <<Item("focus_areas", "list", focus_areas)>> ELSE <<>>

\* the reminder_intensity adaptation, if any
ReminderIntensity(engagement_patterns) ==
    IF FracLess(Value(engagement_patterns, "check_in_adherence"), Frac(5, 10))
    THEN <<Item("reminder_intensity", "str", "strong")>>
    ELSE IF FracLess(Frac(9, 10), Value(engagement_patterns, "check_in_adherence"))
    THEN <<Item("reminder_intensity", "str", "gentle")>>
    ELSE <<>>

\* _generate_coaching_adaptations(task_completion_rate, engagement_patterns,
\* mood_patterns): a dict of the keys to change
generate_coaching_adaptations(task_completion_rate, engagement_patterns, mood_patterns) ==
    Tone(task_completion_rate, mood_patterns)
      \o DetailLevel(engagement_patterns)
      \o FocusAreas(task_completion_rate, engagement_patterns, mood_patterns)
      \o ReminderIntensity(engagement_patterns)

\* reflect_on_coaching(): the locals and the reflection, for the snapshot
\* get_recent_context returned and the clock's time
reflect_on_coaching(recent_context, timestamp) ==
    LET task_completion_rate == analyze_task_completion(recent_context.tasks)
        engagement_patterns ==
            analyze_user_engagement(recent_context.check_ins, recent_context.journal_entries)
        mood_patterns == analyze_mood_patterns(recent_context.journal_entries)
        adaptations ==
            generate_coaching_adaptations(task_completion_rate, engagement_patterns,
                                          mood_patterns)
        prompt_changes == analyze_prompt_effectiveness(recent_context)
    IN [task_completion_rate |-> task_completion_rate,
        engagement_patterns |-> engagement_patterns,
        mood_patterns |-> mood_patterns,
        adaptations |-> adaptations,
        reflection |->
            [timestamp |-> timestamp,
             metrics |->
                 [task_completion_rate |-> task_completion_rate,
                  engagement_score |-> Value(engagement_patterns, "engagement_score"),
                  mood_trend |-> Value(mood_patterns, "trend")],
             proposed_adaptations |->
                 IF prompt_changes # <<>>
                 THEN adaptations \o <<Item("prompt_changes", "dict", prompt_changes)>>
                 ELSE adaptations]]

\* d[item.key] = item.value: an existing key keeps its place
DictSet(d, item) ==
    IF HasKey(d, item.key)
    THEN [i \in DOMAIN d |-> IF d[i].key = item.key THEN item ELSE d[i]]
    ELSE Append(d, item)

\* faulty variant: the dict is replaced by the update
DictUpdate_Replace(d, u) == u

\* d.update(u)
RECURSIVE DictUpdate(_, _)
DictUpdate(d, u) ==
    IF u = <<>> THEN d ELSE DictUpdate(DictSet(d, Head(u)), Tail(u))

\* the memory items the context keeps
MemoryLimit == 100

\* seq[-n:]
LastN(seq, n) == IF Len(seq) <= n THEN seq ELSE SubSeq(seq, Len(seq) - n + 1, Len(seq))

\* faulty variant: at the limit the memory keeps its oldest items
add_to_assistant_memory_KeepsOldest(asst, memory_item, timestamp) ==
    [asst EXCEPT !.memory =
        SubSeq(Append(asst.memory,
                      DictUpdate(<<Item("timestamp", "str", timestamp)>>, memory_item)),
               1, IF Len(asst.memory) < MemoryLimit THEN Len(asst.memory) + 1
                  ELSE MemoryLimit)]

\* ContextManager.add_to_assistant_memory(memory_item): the assistant part of
\* the context after the call, which is also what the call saves
add_to_assistant_memory(asst, memory_item, timestamp) ==
    [asst EXCEPT !.memory =
        LastN(Append(asst.memory,
                     DictUpdate(<<Item("timestamp", "str", timestamp)>>, memory_item)),
              MemoryLimit)]

\* ContextManager.update_assistant_adaptations(adaptations)
update_assistant_adaptations(asst, adaptations) ==
    [asst EXCEPT !.adaptations = DictUpdate(asst.adaptations, adaptations)]

\* faulty variant: only the first category is remembered
RememberPromptChanges_First(asst, prompt_changes, timestamp) ==
    IF prompt_changes = <<>> THEN asst
    ELSE add_to_assistant_memory(asst,
             <<Item("type", "str", "prompt_adaptation"),
               Item("prompt_type", "str", Head(prompt_changes).key),
               Item("changes", Head(prompt_changes).kind, Head(prompt_changes).value),
               Item("timestamp", "str", timestamp)>>,
             timestamp)

\* the loop of apply_adaptations over adaptations["prompt_changes"].items()
RECURSIVE RememberPromptChanges(_, _, _)
RememberPromptChanges(asst, prompt_changes, timestamp) ==
    IF prompt_changes = <<>> THEN asst
    ELSE RememberPromptChanges(
             add_to_assistant_memory(asst,
                 <<Item("type", "str", "prompt_adaptation"),
                   Item("prompt_type", "str", Head(prompt_changes).key),
                   Item("changes", Head(prompt_changes).kind, Head(prompt_changes).value),
                   Item("timestamp", "str", timestamp)>>,
                 timestamp),
             Tail(prompt_changes), timestamp)

\* apply_adaptations(adaptations): the coaching style, the assistant part of
\* the context and the context file after the call
apply_adaptations(style, asst, adaptations, timestamp) ==
    LET new_style == DictUpdate(style, adaptations)
        remembered ==
            IF HasKey(adaptations, "prompt_changes")
            THEN RememberPromptChanges(asst, Value(adaptations, "prompt_changes"), timestamp)
            ELSE asst
        new_asst ==
            update_assistant_adaptations(remembered,
                <<Item("timestamp", "str", timestamp),
                  Item("coaching_style", "dict", new_style),
                  Item("reason", "str", "Automated adaptation based on user patterns")>>)
    IN [coaching_style |-> new_style, assistant |-> new_asst, file |-> new_asst]

\* ---------------------------------------------------------------- the coach's snapshots

\* reflect_on_coaching calls in one run
MaxReflections == 2

\* apply_adaptations calls in one run
MaxApplies == 2

\* check-ins of the engagement snapshots
MaxCheckIns == 21

\* journal entries of the engagement snapshots
MaxJournal == 8

\* journal entries of one kind in the mood snapshots
MaxEntries == 3

\* tasks of a snapshot
MaxTasks == 10

JournalEntry(mood, content) == [mood |-> mood, content |-> content]

\* the kinds of journal entry the mood analysis tells apart
JournalKinds ==
    <<JournalEntry(Str("happy"), "Shipped it"),
      JournalEntry(Str("energetic"), "OVERWHELMED"),
      JournalEntry(Str("frustrated"), "All failed"),
      JournalEntry(None, "so Tired"),
      JournalEntry(Str("calm"), "Quiet day")>>

\* a task as _get_recent_tasks builds it: no subtasks
RecentTask(status) == Task(status, <<>>)

\* done tasks with status done, then open tasks still in progress
RecentTasks(done, open) ==
    [i \in 1..done |-> RecentTask("done")] \o [i \in 1..open |-> RecentTask("in_progress")]

\* c check-ins, morning and evening in turn
RecentCheckIns(c) ==
    [i \in 1..c |-> IF i % 2 = 1 THEN CheckInKinds[2] ELSE CheckInKinds[4]]

\* snapshots that vary the check-ins and the number of journal entries,
\* snapshots that vary the journal, and snapshots that vary the tasks with
\* none or all of the expected check-ins and a short journal
Snapshots ==
    {[check_ins |-> RecentCheckIns(c), tasks |-> <<>>,
      journal_entries |-> [i \in 1..j |-> JournalKinds[5]]] :
        c \in 0..MaxCheckIns, j \in 0..MaxJournal}
    \cup {[check_ins |-> <<>>, tasks |-> <<>>, journal_entries |-> Copies(JournalKinds, k, 1)] :
        k \in [1..5 -> 0..MaxEntries]}
    \cup {[check_ins |-> RecentCheckIns(c), tasks |-> RecentTasks(t[1], t[2]),
           journal_entries |-> Copies(JournalKinds, k, 1)] :
        c \in {0, ExpectedCheckIns},
        t \in {t \in (0..MaxTasks) \X (0..MaxTasks) : t[1] + t[2] <= MaxTasks},
        k \in {k \in [1..5 -> 0..2] : k[1] + k[2] + k[3] + k[4] + k[5] <= 2}}

\* the snapshots of a run with several reflections: no activity; an unclear
\* morning and a finished task; two weeks of full activity; a stressful week
CoachSnapshots ==
    {EmptyContext,
     [check_ins |-> <<CheckInKinds[1]>>, tasks |-> RecentTasks(1, 0), journal_entries |-> <<>>],
     [check_ins |-> RecentCheckIns(ExpectedCheckIns), tasks |-> RecentTasks(2, 0),
      journal_entries |-> [i \in 1..JournalDays |-> JournalKinds[1]]],
     [check_ins |-> <<>>, tasks |-> <<>>,
      journal_entries |-> <<JournalKinds[4], JournalKinds[2]>>]}

\* ---------------------------------------------------------------- the coach's operations

InitCoach ==
    /\ prompt_versions = new_prompt_builder(NoFile, 0).versions
    /\ versions_file = new_prompt_builder(NoFile, 0).file
    /\ now = 1
    /\ last = Call("construct", Dict(<<>>), 0, FALSE, TRUE)
    /\ calls = 0
    /\ origin = (1 :> Call("construct", Dict(<<>>), 0, FALSE, TRUE))
    /\ context = EmptyContext
    /\ effectiveness = NotAnalyzed
    /\ NewCoach

\* the body of reflect_on_coaching(), get_recent_context returning recent_context
Reflect(recent_context) ==
    /\ LET r == reflect_on_coaching(recent_context, now)
       IN /\ last_reflection' = Dict(r.reflection)
          /\ adaptation_history' = Append(adaptation_history, r.reflection)
          /\ analysis' = [done |-> TRUE,
                          task_completion_rate |-> r.task_completion_rate,
                          engagement_patterns |-> r.engagement_patterns,
                          mood_patterns |-> r.mood_patterns,
                          adaptations |-> r.adaptations]
    /\ context' = recent_context
    /\ now' = now + 1
    /\ UNCHANGED <<effectiveness, coaching_style, assistant, context_file, applies>>
    /\ UNCHANGED <<prompt_versions, versions_file, last, calls, origin>>
    /\ UNCHANGED <<data_files, session_logger, command>>

\* reflect_on_coaching()
ReflectOnCoaching(recent_context) ==
    /\ Len(adaptation_history) < MaxReflections
    /\ Reflect(recent_context)
    /\ UNCHANGED trace

\* apply_adaptations(adaptations)
ApplyAdaptations(adaptations) ==
    /\ Len(applies) < MaxApplies
    /\ LET r == apply_adaptations(coaching_style, assistant, adaptations, now)
       IN /\ coaching_style' = r.coaching_style
          /\ assistant' = r.assistant
          /\ context_file' = r.file
    /\ applies' = Append(applies, adaptations)
    /\ now' = now + 1
    /\ UNCHANGED <<context, effectiveness, last_reflection, adaptation_history, analysis>>
    /\ UNCHANGED <<prompt_versions, versions_file, last, calls, origin>>
    /\ UNCHANGED toolVars

\* what a caller has at hand to apply: the adaptations a reflection proposed,
\* and the output of _generate_coaching_adaptations on its own
ApplyArgs ==
    {adaptation_history[i].proposed_adaptations : i \in DOMAIN adaptation_history}
      \cup (IF analysis.done THEN {analysis.adaptations} ELSE {})

NextCoach ==
    \/ \E recent_context \in CoachSnapshots : ReflectOnCoaching(recent_context)
    \/ \E adaptations \in ApplyArgs : ApplyAdaptations(adaptations)

SpecCoach == InitCoach /\ [][NextCoach]_vars

\* the first reflection of a coach, on any snapshot
FirstReflection(recent_context) ==
    /\ adaptation_history = <<>>
    /\ ReflectOnCoaching(recent_context)

NextReflect == \E recent_context \in Snapshots : FirstReflection(recent_context)

SpecReflect == InitCoach /\ [][NextReflect]_vars

\* ---------------------------------------------------------------- claims on the coach

Reflected == last_reflection.kind = "dict"

ProposedAdaptations == last_reflection.value.proposed_adaptations

\* C13: the prompt_changes of the proposed adaptations contain only
\* categories of the effectiveness report whose issues list is non-empty (each
\* mapped through the improvement catalog); an analysed category without an
\* issue is not included.
C13_OnlyCategoriesWithIssues ==
    (Reflected /\ HasKey(ProposedAdaptations, "prompt_changes")) =>
        LET prompt_changes == Value(ProposedAdaptations, "prompt_changes")
        IN \A prompt_type \in Keys(prompt_changes) :
              /\ HasKey(analyze_prompt_effectiveness(context), prompt_type)
              /\ Value(Value(analyze_prompt_effectiveness(context), prompt_type), "issues")
                   # <<>>

\* the check-ins and journal entries of the snapshot reflected on
CheckInCount == Len(context.check_ins)

JournalCount == Len(context.journal_entries)

EngagementScore == Value(analysis.engagement_patterns, "engagement_score")

CheckInAdherence == Value(analysis.engagement_patterns, "check_in_adherence")

\* C14: with c check-ins and j journal entries, check_in_adherence is c/14 and
\* engagement_score is (c/14)*0.7 + min(j/7, 1)*0.3, that is
\* 140*engagement_score = 7*c + 6*min(j, 7); the score is not clamped to 1.0
\* (c = 21, j = 0 gives 1.05), and c = 7, j = 7 gives 0.65.
C14_EngagementScore ==
    analysis.done =>
        LET c == CheckInCount
            j == JournalCount
        IN /\ 14 * CheckInAdherence.num = c * CheckInAdherence.den
           /\ 140 * EngagementScore.num
                = (7 * c + 6 * (IF j < 7 THEN j ELSE 7)) * EngagementScore.den
           /\ (c = 21 /\ j = 0) => 100 * EngagementScore.num = 105 * EngagementScore.den
           /\ (c = 7 /\ j = 7) => 100 * EngagementScore.num = 65 * EngagementScore.den

\* C14 witness: 21 check-ins and no journal entry have given a score above 1.0
C14_Witness ==
    /\ analysis.done
    /\ CheckInCount = 21
    /\ JournalCount = 0
    /\ EngagementScore.num > EngagementScore.den

\* more than 7 journal entries: the journal term is capped
C14_JournalCapped ==
    /\ analysis.done
    /\ CheckInCount = 7
    /\ JournalCount = 8
    /\ 100 * EngagementScore.num = 65 * EngagementScore.den

\* the journal entries of the snapshot whose mood is one of the given ones
WithMood(moods) ==
    {i \in DOMAIN context.journal_entries :
        /\ context.journal_entries[i].mood.kind = "str"
        /\ context.journal_entries[i].mood.value \in moods}

\* the journal entries of the snapshot whose content holds a stress word
WithStressWord ==
    {i \in DOMAIN context.journal_entries :
        \E word \in {"stress", "overwhelm", "anxiety", "tired"} :
            Contains(word, Lower(context.journal_entries[i].content))}

MoodTrendOf == Value(analysis.mood_patterns, "trend")

StressLevelOf == Value(analysis.mood_patterns, "stress_level")

\* C15: for n >= 1 journal entries, p of them with a mood in {happy,
\* productive, energetic} and g with a mood in {stressed, frustrated,
\* exhausted}, the trend is positive iff p > 0.6*n, otherwise negative iff
\* g > 0.4*n, otherwise neutral; other and missing moods count toward neither;
\* for no entry the trend is neutral.
C15_MoodTrend ==
    analysis.done =>
        LET n == JournalCount
            p == Cardinality(WithMood({"happy", "productive", "energetic"}))
            g == Cardinality(WithMood({"stressed", "frustrated", "exhausted"}))
        IN MoodTrendOf = IF n = 0 THEN "neutral"
                         ELSE IF 10 * p > 6 * n THEN "positive"
                         ELSE IF 10 * g > 4 * n THEN "negative"
                         ELSE "neutral"

\* C15 witness: of five entries three have a positive mood, which is not more
\* than 0.6 of them, one has no mood and one another mood: the trend is neutral
C15_Witness ==
    /\ analysis.done
    /\ JournalCount = 5
    /\ Cardinality(WithMood({"happy", "productive", "energetic"})) = 3
    /\ \E i \in DOMAIN context.journal_entries : context.journal_entries[i].mood = None
    /\ \E i \in DOMAIN context.journal_entries : context.journal_entries[i].mood = Str("calm")
    /\ MoodTrendOf = "neutral"

\* C16: for n >= 1 journal entries, s of them holding a stress word, the
\* stress level is high iff s > 0.6*n, otherwise moderate iff s > 0.3*n,
\* otherwise low; for no entry it is moderate, so low needs an entry.
C16_StressLevel ==
    analysis.done =>
        LET n == JournalCount
            s == Cardinality(WithStressWord)
        IN /\ StressLevelOf = IF n = 0 THEN "moderate"
                              ELSE IF 10 * s > 6 * n THEN "high"
                              ELSE IF 10 * s > 3 * n THEN "moderate"
                              ELSE "low"
           /\ StressLevelOf = "low" => n >= 1

\* C16 witness: of ten entries three hold a stress word, which is not more
\* than 0.3 of them: the level is low
C16_Witness ==
    /\ analysis.done
    /\ JournalCount = 10
    /\ Cardinality(WithStressWord) = 3
    /\ StressLevelOf = "low"

\* more than 0.6 of the entries hold a stress word: the level is high
C16_High ==
    /\ analysis.done
    /\ JournalCount = 3
    /\ Cardinality(WithStressWord) = 2
    /\ StressLevelOf = "high"

\* the completion rate handed to _generate_coaching_adaptations is below
\* tenths / 10
RateBelow(tenths) ==
    10 * analysis.task_completion_rate.num < tenths * analysis.task_completion_rate.den

\* C17: the tone key of the output of _generate_coaching_adaptations is
\* supportive whenever stress_level is high (even with a completion rate below
\* 0.5), strict iff stress_level is not high, the completion rate is below 0.5
\* and the mood trend is not negative, and absent in every other case.
C17_Tone ==
    analysis.done =>
        LET high == StressLevelOf = "high"
            strict == ~high /\ RateBelow(5) /\ MoodTrendOf # "negative"
        IN /\ high => /\ HasKey(analysis.adaptations, "tone")
                      /\ Value(analysis.adaptations, "tone") = "supportive"
           /\ strict => /\ HasKey(analysis.adaptations, "tone")
                        /\ Value(analysis.adaptations, "tone") = "strict"
           /\ (~high /\ ~strict) => ~HasKey(analysis.adaptations, "tone")

\* C17 witness: high stress with a completion rate below 0.5 and a trend that
\* is not negative has given the supportive tone
C17_Witness ==
    /\ analysis.done
    /\ context.tasks # <<>>
    /\ StressLevelOf = "high"
    /\ RateBelow(5)
    /\ MoodTrendOf # "negative"
    /\ Value(analysis.adaptations, "tone") = "supportive"

\* a completion rate below 0.5 with a negative trend and no high stress: no tone
C17_Absent ==
    /\ analysis.done
    /\ context.tasks # <<>>
    /\ StressLevelOf # "high"
    /\ RateBelow(5)
    /\ MoodTrendOf = "negative"
    /\ ~HasKey(analysis.adaptations, "tone")

\* the focus areas the inputs call for
ExpectedFocus ==
    (IF RateBelow(7) THEN {"task_completion"} ELSE {})
      \cup (IF 10 * CheckInAdherence.num < 7 * CheckInAdherence.den
            THEN {"consistency"} ELSE {})
      \cup (IF StressLevelOf \in {"moderate", "high"} THEN {"stress_management"} ELSE {})

\* C18: focus_areas holds task_completion iff the completion rate is below
\* 0.7, consistency iff check_in_adherence is below 0.7 and stress_management
\* iff stress_level is moderate or high, nothing else and nothing twice; the
\* key is absent exactly when none of the three holds.
C18_FocusAreas ==
    analysis.done =>
        /\ HasKey(analysis.adaptations, "focus_areas") <=> ExpectedFocus # {}
        /\ HasKey(analysis.adaptations, "focus_areas") =>
              LET focus_areas == Value(analysis.adaptations, "focus_areas")
              IN /\ {focus_areas[i] : i \in DOMAIN focus_areas} = ExpectedFocus
                 /\ Len(focus_areas) = Cardinality(ExpectedFocus)

\* C18 witness: with tasks, a completion rate of at least 0.7, all expected
\* check-ins and low stress, the output has no focus_areas key
C18_Witness ==
    /\ analysis.done
    /\ context.tasks # <<>>
    /\ ~RateBelow(7)
    /\ CheckInCount = 14
    /\ StressLevelOf = "low"
    /\ ~HasKey(analysis.adaptations, "focus_areas")

\* a completion rate of exactly 0.7 does not call for task_completion
C18_AtThreshold ==
    /\ analysis.done
    /\ Len(context.tasks) = 10
    /\ analysis.task_completion_rate = Frac(7, 10)
    /\ HasKey(analysis.adaptations, "focus_areas")
    /\ Value(analysis.adaptations, "focus_areas") = <<"consistency", "stress_management">>

StyleFields ==
    {"tone", "detail_level", "focus_areas", "check_in_frequency", "reminder_intensity"}

\* a dict has the key with the value
Holds(d, k, v) == HasKey(d, k) /\ Value(d, k) = v

\* a step of apply_adaptations(a): every coaching-style field named in a gets
\* a's value, every other one keeps its value
AppliesFieldByField ==
    applies' # applies =>
        LET a == applies'[Len(applies')]
        IN \A field \in StyleFields :
              /\ HasKey(coaching_style, field)
              /\ IF HasKey(a, field)
                 THEN Holds(coaching_style', field, Value(a, field))
                 ELSE Holds(coaching_style', field, Value(coaching_style, field))

\* C19: apply_adaptations(a) sets each coaching-style field named in a to a's
\* value and leaves every other coaching-style field unchanged; in particular
\* check_in_frequency keeps its initial value under any sequence of calls.
C19_FieldByField ==
    /\ [][AppliesFieldByField]_vars
    /\ [](Holds(coaching_style, "check_in_frequency", "twice_daily"))

\* C19 witness: the second of two applications names neither tone nor
\* focus_areas, which keep the values of the first, and changes detail_level
C19_Witness ==
    /\ Len(applies) = 2
    /\ Holds(applies[1], "tone", "supportive")
    /\ ~HasKey(applies[2], "tone")
    /\ ~HasKey(applies[2], "focus_areas")
    /\ Holds(applies[2], "detail_level", "detailed")
    /\ Holds(coaching_style, "tone", "supportive")
    /\ Holds(coaching_style, "focus_areas", Value(applies[1], "focus_areas"))
    /\ Holds(coaching_style, "detail_level", "detailed")
    /\ Holds(coaching_style, "check_in_frequency", "twice_daily")

\* C20: after reflect_on_coaching calls, each followed by apply_adaptations on
\* its proposed adaptations, coaching_style has exactly the five fields tone,
\* detail_level, focus_areas, check_in_frequency and reminder_intensity, with
\* tone, detail_level and reminder_intensity among their three values each.
C20_FiveFields ==
    /\ Keys(coaching_style) = StyleFields
    /\ Value(coaching_style, "tone") \in {"assertive", "supportive", "strict"}
    /\ Value(coaching_style, "detail_level") \in {"minimal", "balanced", "detailed"}
    /\ Value(coaching_style, "reminder_intensity") \in {"gentle", "moderate", "strong"}

\* ---------------------------------------------------------------- the coaching context

\* reflect_on_coaching calls in one run of SpecHistory
MaxHistory == 6

\* the reflections get_coaching_context reports
HistoryLimit == 5

\* faulty variant: the oldest reflections are reported
get_coaching_context_Oldest(style, reflection, history) ==
    [coaching_style |-> style,
     last_reflection |-> reflection,
     adaptation_history |-> SubSeq(history, 1, IF Len(history) < HistoryLimit
                                               THEN Len(history) ELSE HistoryLimit)]

\* get_coaching_context()
get_coaching_context(style, reflection, history) ==
    [coaching_style |-> style,
     last_reflection |-> reflection,
     adaptation_history |-> LastN(history, HistoryLimit)]

\* a week with one open task, and a week of journal entries only
HistorySnapshots ==
    {[check_ins |-> <<>>, tasks |-> RecentTasks(0, 1), journal_entries |-> <<>>],
     [check_ins |-> <<>>, tasks |-> <<>>,
      journal_entries |-> <<JournalKinds[4], JournalKinds[2]>>]}

\* reflect_on_coaching() and then get_coaching_context(): the trace keeps
\* what the two calls returned
ReflectAndReport(recent_context) ==
    /\ Len(trace) < MaxHistory
    /\ Reflect(recent_context)
    /\ trace' = Append(trace,
           [op |-> "reflect_on_coaching",
            returned |-> reflect_on_coaching(recent_context, now).reflection,
            reported |-> get_coaching_context(coaching_style', last_reflection',
                                              adaptation_history')])

NextHistory == \E recent_context \in HistorySnapshots : ReflectAndReport(recent_context)

SpecHistory == InitCoach /\ [][NextHistory]_vars

\* the reflections the calls so far returned, from the i-th on
ReturnedFrom(i) == [j \in 1..(Len(trace) - i + 1) |-> trace[i + j - 1].returned]

\* what get_coaching_context reports in the current state
CoachingContext == get_coaching_context(coaching_style, last_reflection, adaptation_history)

\* C21: after k reflect_on_coaching calls, get_coaching_context reports a
\* history of min(k, 5) reflections, the most recent ones in call order, and
\* last_reflection is the reflection the most recent call returned (None
\* when k = 0); the report made right after each call says the same.
C21_LastFiveInOrder ==
    LET k == Len(trace)
        first == IF k <= HistoryLimit THEN 1 ELSE k - HistoryLimit + 1
    IN /\ Len(CoachingContext.adaptation_history) = (IF k < HistoryLimit THEN k ELSE HistoryLimit)
       /\ CoachingContext.adaptation_history = ReturnedFrom(first)
       /\ CoachingContext.last_reflection = (IF k = 0 THEN None ELSE Dict(trace[k].returned))
       /\ k > 0 => trace[k].reported = CoachingContext

\* six calls: five reflections are reported, the first one is not among them
C21_Witness ==
    /\ Len(trace) = MaxHistory
    /\ Len(adaptation_history) = MaxHistory
    /\ Len(trace[MaxHistory].reported.adaptation_history) = HistoryLimit
    /\ trace[MaxHistory].reported.adaptation_history[1] = trace[2].returned
    /\ trace[MaxHistory].reported.adaptation_history[HistoryLimit] = trace[MaxHistory].returned
    /\ trace[1].returned # trace[2].returned

\* ---------------------------------------------------------------- the audit trail

\* the categories of the i-th apply_adaptations call: the items of its
\* prompt_changes, none when the key is absent
PromptChangesOf(i) ==
    IF HasKey(applies[i], "prompt_changes") THEN Value(applies[i], "prompt_changes") ELSE <<>>

\* the categories of the first n apply_adaptations calls, in call order
RECURSIVE AppliedCategories(_)
AppliedCategories(n) ==
    IF n = 0 THEN <<>> ELSE AppliedCategories(n - 1) \o PromptChangesOf(n)

\* C22: the assistant memory holds, for the apply_adaptations calls so far in
\* call order, exactly one item of type prompt_adaptation per category of the
\* call's prompt_changes, with the category's name and changes, in the order
\* of the categories, and none for a call without prompt_changes; after every
\* call the assistant adaptations of the context, in memory and on disk, hold
\* the resulting coaching style.
C22_OneItemPerCategory ==
    LET expected == AppliedCategories(Len(applies))
    IN /\ Len(assistant.memory) = Len(expected)
       /\ \A i \in 1..Len(expected) :
             /\ i \in DOMAIN assistant.memory
             /\ Holds(assistant.memory[i], "type", "prompt_adaptation")
             /\ Holds(assistant.memory[i], "prompt_type", expected[i].key)
             /\ Holds(assistant.memory[i], "changes", expected[i].value)
             /\ HasKey(assistant.memory[i], "timestamp")
       /\ applies # <<>> =>
             /\ Holds(assistant.adaptations, "coaching_style", coaching_style)
             /\ Holds(context_file.adaptations, "coaching_style", coaching_style)

\* one call with several categories and one call without prompt_changes
C22_Witness ==
    /\ Len(applies) = 2
    /\ \E i, j \in 1..2 :
          /\ Len(PromptChangesOf(i)) >= 2
          /\ ~HasKey(applies[j], "prompt_changes")
    /\ Len(assistant.memory) >= 2
    /\ Value(assistant.memory[1], "prompt_type") # Value(assistant.memory[2], "prompt_type")

\* ---------------------------------------------------------------- JSON text

Char(s, i) == SubSeq(s, i, i)

Whitespace == {" ", "\n", "\t", "\r"}

\* the first position from i on that holds no whitespace, Len(s) + 1 if none
SkipWhitespace(s, i) ==
    CHOOSE j \in i..(Len(s) + 1) :
        /\ j = Len(s) + 1 \/ Char(s, j) \notin Whitespace
        /\ \A k \in i..(j - 1) : Char(s, k) \in Whitespace

StartsWith(s, i, literal) ==
    /\ i + Len(literal) - 1 <= Len(s)
    /\ SubSeq(s, i, i + Len(literal) - 1) = literal

\* json.JSONDecodeError
NoParse == [ok |-> FALSE, kind |-> "NoneType", value |-> <<>>, next |-> 0]

Parsed(kind, value, next) == [ok |-> TRUE, kind |-> kind, value |-> value, next |-> next]

\* a string from its opening quote at i; a raw line break inside is an error
ParseString(s, i) ==
    LET closing == {j \in (i + 1)..Len(s) : Char(s, j) = "\""}
        j == CHOOSE c \in closing : \A d \in closing : c <= d
    IN IF closing = {} THEN NoParse
       ELSE IF Contains("\n", SubSeq(s, i + 1, j - 1)) THEN NoParse
       ELSE Parsed("str", SubSeq(s, i + 1, j - 1), j + 1)

\* an integer from its first digit at i; a leading zero ends the number
ParseInt(s, i) ==
    LET j == CHOOSE e \in i..Len(s) :
                 /\ \A k \in i..e : Char(s, k) \in {Digit(d) : d \in 0..9}
                 /\ e = Len(s) \/ Char(s, e + 1) \notin {Digit(d) : d \in 0..9}
    IN IF Char(s, i) = "0" THEN Parsed("int", 0, i + 1)
       ELSE Parsed("int", StrToInt(SubSeq(s, i, j)), j + 1)

RECURSIVE ParseValue(_, _)
RECURSIVE ParseElements(_, _, _)
RECURSIVE ParseMembers(_, _, _)

\* the elements of an array, the first one starting at i
ParseElements(s, i, elements) ==
    LET v == ParseValue(s, i)
        j == SkipWhitespace(s, v.next)
    IN IF ~v.ok THEN NoParse
       ELSE IF StartsWith(s, j, ",")
       THEN ParseElements(s, SkipWhitespace(s, j + 1),
                          Append(elements, [kind |-> v.kind, value |-> v.value]))
       ELSE IF StartsWith(s, j, "]")
       THEN Parsed("list", Append(elements, [kind |-> v.kind, value |-> v.value]), j + 1)
       ELSE NoParse

\* the members of an object, the first key starting at i; a repeated key
\* takes the last value
ParseMembers(s, i, members) ==
    LET k == IF StartsWith(s, i, "\"") THEN ParseString(s, i) ELSE NoParse
        colon == SkipWhitespace(s, k.next)
        v == ParseValue(s, SkipWhitespace(s, colon + 1))
        j == SkipWhitespace(s, v.next)
    IN IF ~k.ok \/ ~StartsWith(s, colon, ":") THEN NoParse
       ELSE IF ~v.ok THEN NoParse
       ELSE IF StartsWith(s, j, ",")
       THEN ParseMembers(s, SkipWhitespace(s, j + 1),
                         DictSet(members, Item(k.value, v.kind, v.value)))
       ELSE IF StartsWith(s, j, "}")
       THEN Parsed("dict", DictSet(members, Item(k.value, v.kind, v.value)), j + 1)
       ELSE NoParse

\* a JSON value starting at i
ParseValue(s, i) ==
    IF StartsWith(s, i, "null") THEN Parsed("NoneType", <<>>, i + 4)
    ELSE IF StartsWith(s, i, "true") THEN Parsed("bool", TRUE, i + 4)
    ELSE IF StartsWith(s, i, "false") THEN Parsed("bool", FALSE, i + 5)
    ELSE IF StartsWith(s, i, "\"") THEN ParseString(s, i)
    ELSE IF i <= Len(s) /\ Char(s, i) \in {Digit(d) : d \in 0..9} THEN ParseInt(s, i)
    ELSE IF StartsWith(s, i, "[")
    THEN (IF StartsWith(s, SkipWhitespace(s, i + 1), "]")
          THEN Parsed("list", <<>>, SkipWhitespace(s, i + 1) + 1)
          ELSE ParseElements(s, SkipWhitespace(s, i + 1), <<>>))
    ELSE IF StartsWith(s, i, "{")
    THEN (IF StartsWith(s, SkipWhitespace(s, i + 1), "}")
          THEN Parsed("dict", <<>>, SkipWhitespace(s, i + 1) + 1)
          ELSE ParseMembers(s, SkipWhitespace(s, i + 1), <<>>))
    ELSE NoParse

\* json.loads(text) for texts without escape sequences, signs, fractions and
\* exponents: one value, whitespace around it, nothing after it
json_loads(text) ==
    LET v == ParseValue(text, SkipWhitespace(text, 1))
    IN IF v.ok /\ SkipWhitespace(text, v.next) = Len(text) + 1 THEN v ELSE NoParse

\* ---------------------------------------------------------------- feature requests

\* the longest description of a feature request
MaxDescription == 101

\* the characters of the description kept as the fallback title
TitleLimit == 100

\* description[:n]
FirstN(text, n) == IF Len(text) <= n THEN text ELSE SubSeq(text, 1, n)

\* faulty variant: the title is cut like the title of break_down_task's fallback
Fallback_Short(description) ==
    <<Item("title", "str", FirstN(description, 50)),
      Item("description", "str", description),
      Item("priority", "str", "medium"),
      Item("tags", "list", <<>>)>>

\* the fallback both except clauses return
Fallback(description) ==
    <<Item("title", "str", FirstN(description, TitleLimit)),
      Item("description", "str", description),
      Item("priority", "str", "medium"),
      Item("tags", "list", <<>>)>>

Returns(value) == [raised |-> FALSE, returned |-> value]

\* expand_feature_request(description), the completion call either raising or
\* answering with `content`: json.loads of a content that is no str raises
\* TypeError, which the outer except clause catches
expand_feature_request(description, completion) ==
    IF completion.raises THEN Returns(Dict(Fallback(description)))
    ELSE IF completion.content.kind # "str" THEN Returns(Dict(Fallback(description)))
    ELSE LET result == json_loads(completion.content.value)
         IN IF result.ok THEN Returns([kind |-> result.kind, value |-> result.value])
            ELSE Returns(Dict(Fallback(description)))

\* an outcome of the completion call, with what json.loads makes of the content
Completion(raises, content, parses, value) ==
    [raises |-> raises, content |-> content, parses |-> parses, value |-> value]

\* the request fails; the answer has no content; the answer is the object
\* asked for, a value that is no object, prose around an object, an object cut
\* off by max_tokens, an object in a code fence, nothing, an object and more
Completions ==
    {Completion(TRUE, None, FALSE, None),
     Completion(FALSE, None, FALSE, None),
     Completion(FALSE,
         Str("{\n  \"title\": \"Dark mode\",\n  \"description\": \"Add a dark theme\",\n  \"priority\": \"high\",\n  \"tags\": [\"ui\", \"theme\"]\n}"),
         TRUE,
         Dict(<<Item("title", "str", "Dark mode"),
                Item("description", "str", "Add a dark theme"),
                Item("priority", "str", "high"),
                Item("tags", "list", <<Str("ui"), Str("theme")>>)>>)),
     Completion(FALSE, Str("null"), TRUE, None),
     Completion(FALSE, Str("Sure! {\"title\": \"Dark mode\"}"), FALSE, None),
     Completion(FALSE, Str("{\"title\": \"Dark mode\", \"descr"), FALSE, None),
     Completion(FALSE, Str("~~~json\n{\"title\": \"Dark mode\"}\n~~~"), FALSE, None),
     Completion(FALSE, Str(""), FALSE, None),
     Completion(FALSE, Str("{\"title\": \"Dark mode\"}\nDone."), FALSE, None)}

\* a request of more than a hundred characters, and its beginnings
LongDescription ==
    "Add a dark mode that follows the system theme, remembers the choice per device and "
      \o "can be switched from the command line as well"

Descriptions == {FirstN(LongDescription, n) : n \in 0..MaxDescription}

ExpandFeatureRequest(description, completion) ==
    /\ trace = <<>>
    /\ trace' = <<[op |-> "expand_feature_request",
                   description |-> description,
                   completion |-> completion,
                   result |-> expand_feature_request(description, completion)]>>
    /\ UNCHANGED <<storeVars, coachVars, data_files, session_logger, command>>

NextExpand ==
    \E description \in Descriptions, completion \in Completions :
        ExpandFeatureRequest(description, completion)

SpecExpand == InitCoach /\ [][NextExpand]_vars

\* C23: expand_feature_request never raises; when the completion call fails
\* or its answer does not parse as JSON it returns the fallback with the first
\* 100 characters of the description as title, the description, priority
\* medium and no tags, and when the answer parses it returns the parsed value.
C23_FallbackOrParsed ==
    \A i \in DOMAIN trace :
        LET description == trace[i].description
            completion == trace[i].completion
            title == IF Len(description) > 100 THEN SubSeq(description, 1, 100)
                     ELSE description
        IN /\ ~trace[i].result.raised
           /\ trace[i].result.returned =
                 IF completion.raises \/ ~completion.parses
                 THEN Dict(<<Item("title", "str", title),
                             Item("description", "str", description),
                             Item("priority", "str", "medium"),
                             Item("tags", "list", <<>>)>>)
                 ELSE completion.value

\* a description of more than 100 characters whose answer was cut off
C23_Witness ==
    /\ trace # <<>>
    /\ Len(trace[1].description) > 100
    /\ ~trace[1].completion.raises
    /\ trace[1].completion.content.kind = "str"
    /\ ~trace[1].completion.parses
    /\ Len(Value(trace[1].result.returned.value, "title")) = 100

\* an answer that parses to a value that is no object is returned as it is
C23_ParsedNull ==
    /\ trace # <<>>
    /\ trace[1].completion.content = Str("null")
    /\ trace[1].result.returned = None

\* ---------------------------------------------------------------- productivity patterns

\* the longest task list handed to _calculate_task_completion_rate
MaxTaskList == 4

\* the longest check-in list handed to _identify_productive_times
MaxCheckInList == 5

\* the hours _identify_productive_times reports
TopHours == 3

\* faulty variant: every task that is not pending counts as completed
calculate_task_completion_rate_Started(tasks) ==
    IF tasks = <<>> THEN Frac(0, 1)
    ELSE Frac(Cardinality({i \in DOMAIN tasks : tasks[i].status # "pending"}), Len(tasks))

\* ContextManager._calculate_task_completion_rate(tasks)
calculate_task_completion_rate(tasks) ==
    IF tasks = <<>> THEN Frac(0, 1)
    ELSE Frac(Cardinality({i \in DOMAIN tasks : tasks[i].status = "done"}), Len(tasks))

\* datetime.fromisoformat(created_at).hour for YYYY-MM-DDTHH:MM:SS
HourOf(created_at) == StrToInt(SubSeq(created_at, 12, 13))

\* the loop filling productive_hours: a dict from hour to count, in the order
\* in which the hours were first seen
RECURSIVE CountHours(_, _)
CountHours(check_ins, productive_hours) ==
    IF check_ins = <<>> THEN productive_hours
    ELSE LET hour == HourOf(Head(check_ins).created_at)
             seen == {i \in DOMAIN productive_hours : productive_hours[i][1] = hour}
         IN CountHours(Tail(check_ins),
                IF seen = {} THEN Append(productive_hours, <<hour, 1>>)
                ELSE [i \in DOMAIN productive_hours |->
                        IF i \in seen
                        THEN <<hour, productive_hours[i][2] + 1>>
                        ELSE productive_hours[i]])

\* faulty variant: a pair goes before the pairs of equal count
InsertByCount_BeforeEqual(sorted, pair) ==
    LET before == Cardinality({i \in DOMAIN sorted : sorted[i][2] > pair[2]})
    IN SubSeq(sorted, 1, before) \o <<pair>> \o SubSeq(sorted, before + 1, Len(sorted))

\* one step of the stable descending sort: a pair goes after the pairs whose
\* count is not smaller
InsertByCount(sorted, pair) ==
    LET before == Cardinality({i \in DOMAIN sorted : sorted[i][2] >= pair[2]})
    IN SubSeq(sorted, 1, before) \o <<pair>> \o SubSeq(sorted, before + 1, Len(sorted))

\* sorted(items, key=lambda x: x[1], reverse=True)
RECURSIVE SortByCount(_, _)
SortByCount(items, sorted) ==
    IF items = <<>> THEN sorted
    ELSE SortByCount(Tail(items), InsertByCount(sorted, Head(items)))

\* ContextManager._identify_productive_times(check_ins, tasks): the value of
\* "most_productive_hours"
identify_productive_times(check_ins, tasks) ==
    FirstN(SortByCount(CountHours(check_ins, <<>>), <<>>), TopHours)

\* the statuses of a task
TaskStatuses == {"pending", "in_progress", "done", "blocked"}

\* the task lists _get_recent_tasks can return
TaskLists ==
    UNION {[1..n -> {RecentTask(status) : status \in TaskStatuses}] : n \in 0..MaxTaskList}

\* check-in snapshots of four hours of the day, one hour on two days
CheckInTimes ==
    {"2024-03-04T09:15:00", "2024-03-05T09:40:12", "2024-03-04T21:05:30",
     "2024-03-06T14:00:00", "2024-03-07T00:59:59"}

CheckInLists ==
    UNION {[1..n -> {[type |-> "morning", priorities |-> <<>>, created_at |-> t] :
                        t \in CheckInTimes}] : n \in 0..MaxCheckInList}

\* _calculate_task_completion_rate(tasks), with what _analyze_task_completion
\* returns on the same list
CalculateTaskCompletionRate(tasks) ==
    /\ trace = <<>>
    /\ trace' = <<[op |-> "calculate_task_completion_rate",
                   tasks |-> tasks,
                   returned |-> calculate_task_completion_rate(tasks),
                   coach |-> analyze_task_completion(tasks)]>>
    /\ UNCHANGED <<storeVars, coachVars, data_files, session_logger, command>>

\* _identify_productive_times(check_ins, tasks)
IdentifyProductiveTimes(check_ins) ==
    /\ trace = <<>>
    /\ trace' = <<[op |-> "identify_productive_times",
                   check_ins |-> check_ins,
                   returned |-> identify_productive_times(check_ins, <<>>)]>>
    /\ UNCHANGED <<storeVars, coachVars, data_files, session_logger, command>>

NextPatterns ==
    \/ \E tasks \in TaskLists : CalculateTaskCompletionRate(tasks)
    \/ \E check_ins \in CheckInLists : IdentifyProductiveTimes(check_ins)

SpecPatterns == InitCoach /\ [][NextPatterns]_vars

RateCalls == {i \in DOMAIN trace : trace[i].op = "calculate_task_completion_rate"}

\* C24: the completion rate of the empty list is 0.0, that of any other list
\* is the number of tasks with status done divided by the number of tasks, a
\* value in [0, 1]; _analyze_task_completion returns the same value.
C24_CompletionRate ==
    \A i \in RateCalls :
        LET tasks == trace[i].tasks
            done == Cardinality({k \in DOMAIN tasks : tasks[k].status = "done"})
            rate == trace[i].returned
        IN /\ tasks = <<>> => rate.num = 0 /\ rate.den = 1
           /\ tasks # <<>> => rate.num * Len(tasks) = done * rate.den
           /\ rate.den > 0 /\ 0 <= rate.num /\ rate.num <= rate.den
           /\ trace[i].coach = rate

\* a list with done, in-progress and blocked tasks: two of four are done
C24_Witness ==
    \E i \in RateCalls :
        /\ Len(trace[i].tasks) = 4
        /\ {trace[i].tasks[k].status : k \in 1..4} = {"done", "in_progress", "blocked"}
        /\ trace[i].returned = [num |-> 1, den |-> 2]
        /\ trace[i].coach = [num |-> 1, den |-> 2]

TimesCalls == {i \in DOMAIN trace : trace[i].op = "identify_productive_times"}

\* the check-ins of a call created in `hour`
CreatedIn(i, hour) ==
    {k \in DOMAIN trace[i].check_ins : HourOf(trace[i].check_ins[k].created_at) = hour}

\* the position of the first check-in of a call created in `hour`
FirstSeen(i, hour) == CHOOSE k \in CreatedIn(i, hour) : \A m \in CreatedIn(i, hour) : k <= m

\* C25: _identify_productive_times returns at most 3 (hour, count) pairs,
\* sorted by count descending; each hour occurs in the input and its count is
\* the number of check-ins created in that hour; hours of equal count come in
\* the order in which they were first seen; no hour outside the result has a
\* strictly larger count than one inside it.
C25_ProductiveTimes ==
    \A i \in TimesCalls :
        LET pairs == trace[i].returned
            hours == {HourOf(trace[i].check_ins[k].created_at) : k \in DOMAIN trace[i].check_ins}
            inside == {pairs[p][1] : p \in DOMAIN pairs}
        IN /\ Len(pairs) <= 3
           /\ \A p, q \in DOMAIN pairs : p < q => pairs[p][2] >= pairs[q][2]
           /\ \A p \in DOMAIN pairs :
                 /\ pairs[p][1] \in hours
                 /\ pairs[p][2] = Cardinality(CreatedIn(i, pairs[p][1]))
           /\ \A p, q \in DOMAIN pairs :
                 p < q /\ pairs[p][2] = pairs[q][2]
                     => FirstSeen(i, pairs[p][1]) < FirstSeen(i, pairs[q][1])
           /\ \A h \in hours \ inside : \A p \in DOMAIN pairs :
                 Cardinality(CreatedIn(i, h)) <= pairs[p][2]

\* check-ins at 21, 9, 14, 0 and 9 o'clock: 9 comes first with two check-ins,
\* then 21 and 14 in the order first seen, and midnight is left out
C25_Witness ==
    \E i \in TimesCalls :
        /\ Len(trace[i].check_ins) = 5
        /\ [k \in 1..5 |-> HourOf(trace[i].check_ins[k].created_at)] = <<21, 9, 14, 0, 9>>
        /\ trace[i].returned = <<<<9, 2>>, <<21, 1>>, <<14, 1>>>>

\* ---------------------------------------------------------------- the data store

\* a model instance: its type, its id (a UUID, here a number) and its text
Record(type, id, text) == [type |-> type, id |-> id, text |-> text]

\* item.model_dump() as the JSON encoder writes it: the UUID as a string
Dumped(item) == [id |-> IntToStr(item.id), text |-> item.text]

\* model_type.model_validate(item)
Validated(type, dumped) == Record(type, StrToInt(dumped.id), dumped.text)

\* the positions of the records of `data` with the id item_id
Matches(data, item_id) == {i \in DOMAIN data : data[i].id = item_id}

First(S) == CHOOSE i \in S : \A j \in S : i <= j

\* faulty variant: the record is appended whether or not its id is stored
save_Appends(files, item) ==
    [files EXCEPT ![item.type] = Append(files[item.type], Dumped(item))]

\* DataStore.save(item): the files after the call
save(files, item) ==
    LET data == files[item.type]
        found == Matches(data, IntToStr(item.id))
    IN [files EXCEPT ![item.type] =
           IF found # {}
           THEN [i \in DOMAIN data |-> IF i = First(found) THEN Dumped(item) ELSE data[i]]
           ELSE Append(data, Dumped(item))]

\* DataStore.get_by_id(model_type, item_id)
get_by_id(files, model_type, item_id) ==
    LET data == files[model_type]
        found == Matches(data, IntToStr(item_id))
    IN IF found # {} THEN Validated(model_type, data[First(found)]) ELSE None

\* DataStore.delete(model_type, item_id): the files after the call and the
\* value returned
delete(files, model_type, item_id) ==
    LET data == files[model_type]
        found == Matches(data, IntToStr(item_id))
    IN IF found # {}
       THEN [files |-> [files EXCEPT ![model_type] =
                           SubSeq(data, 1, First(found) - 1)
                             \o SubSeq(data, First(found) + 1, Len(data))],
             returned |-> TRUE]
       ELSE [files |-> files, returned |-> FALSE]

\* the records the callers save: three tasks, each under two titles, and a
\* journal entry that shares its id with a task
StoreItems ==
    {Record("Task", id, title) : id \in {9, 10, 11}, title \in {"Write report", "Send report"}}
      \cup {Record("JournalEntry", 9, "Quiet day")}

\* the (type, id) pairs the callers ask for
StoreKeys == {<<item.type, item.id>> : item \in StoreItems}

\* history: no record saved yet
NothingSaved == [key \in StoreKeys |-> None]

\* history: the record last saved under each key, None once it is deleted
LastSaved == IF trace = <<>> THEN NothingSaved ELSE trace[1].saved

StoreCall(op, type, id, returned, saved) ==
    [op |-> op, type |-> type, id |-> id, before |-> data_files, returned |-> returned,
     saved |-> saved]

Save(item) ==
    /\ data_files' = save(data_files, item)
    /\ trace' = <<StoreCall("save", item.type, item.id, None,
                            [LastSaved EXCEPT ![<<item.type, item.id>>] = item])>>
    /\ UNCHANGED <<storeVars, coachVars, session_logger, command>>

GetById(model_type, item_id) ==
    /\ trace' = <<StoreCall("get_by_id", model_type, item_id,
                            get_by_id(data_files, model_type, item_id), LastSaved)>>
    /\ UNCHANGED <<storeVars, coachVars, data_files, session_logger, command>>

Delete(model_type, item_id) ==
    /\ data_files' = delete(data_files, model_type, item_id).files
    /\ trace' = <<StoreCall("delete", model_type, item_id,
                            delete(data_files, model_type, item_id).returned,
                            [LastSaved EXCEPT ![<<model_type, item_id>>] = None])>>
    /\ UNCHANGED <<storeVars, coachVars, session_logger, command>>

NextDataStore ==
    \/ \E item \in StoreItems : Save(item)
    \/ \E key \in StoreKeys : GetById(key[1], key[2])
    \/ \E key \in StoreKeys : Delete(key[1], key[2])

SpecDataStore == InitCoach /\ [][NextDataStore]_vars

\* the ids of the records of a file
StoredIds(data) == {StrToInt(data[i].id) : i \in DOMAIN data}

\* the records of a file without those of one id, in the file's order
Without(data, id) == SelectSeq(data, LAMBDA r : StrToInt(r.id) # id)

Untouched(type) == \A t \in DOMAIN data_files : t # type => data_files[t] = trace[1].before[t]

\* C26: no two stored records of one type share an id.  A save of an id that
\* is not stored appends the record; a save of a stored id puts the record in
\* the place of the old one and leaves the other records and the order as
\* they were.  A delete of a stored id returns true and removes that record
\* only; any other delete returns false and changes nothing.  get_by_id
\* returns the record last saved under a stored id, and None otherwise.
C26_UpsertById ==
    /\ \A t \in DOMAIN data_files : \A i, j \in DOMAIN data_files[t] :
          i # j => data_files[t][i].id # data_files[t][j].id
    /\ trace # <<>> =>
          LET call == trace[1]
              old == call.before[call.type]
              new == data_files[call.type]
              stored == call.id \in StoredIds(old)
          IN /\ Untouched(call.type)
             /\ call.op = "save" /\ ~stored =>
                   /\ Len(new) = Len(old) + 1
                   /\ SubSeq(new, 1, Len(old)) = old
                   /\ Validated(call.type, new[Len(new)]) = call.saved[<<call.type, call.id>>]
             /\ call.op = "save" /\ stored =>
                   /\ Len(new) = Len(old)
                   /\ \A i \in DOMAIN old :
                        IF StrToInt(old[i].id) = call.id
                        THEN Validated(call.type, new[i]) = call.saved[<<call.type, call.id>>]
                        ELSE new[i] = old[i]
             /\ call.op = "delete" /\ stored =>
                   /\ call.returned = TRUE
                   /\ new = Without(old, call.id)
                   /\ Len(new) = Len(old) - 1
             /\ call.op = "delete" /\ ~stored =>
                   /\ call.returned = FALSE
                   /\ new = old
             /\ call.op = "get_by_id" =>
                   /\ new = old
                   /\ call.returned =
                        IF stored THEN call.saved[<<call.type, call.id>>] ELSE None
                   /\ stored => call.returned # None

\* a save that replaces the second of three tasks under a new title
C26_Witness ==
    /\ trace # <<>>
    /\ trace[1].op = "save"
    /\ trace[1].type = "Task"
    /\ Len(trace[1].before["Task"]) = 3
    /\ trace[1].before["Task"][2].id = IntToStr(trace[1].id)
    /\ data_files["Task"][2] # trace[1].before["Task"][2]
    /\ data_files["JournalEntry"] # <<>>

\* a delete of a stored task that leaves the journal entry of the same id
C26_Deleted ==
    /\ trace # <<>>
    /\ trace[1].op = "delete"
    /\ trace[1].type = "Task"
    /\ trace[1].id = 9
    /\ trace[1].returned = TRUE
    /\ Len(trace[1].before["Task"]) = 2
    /\ Len(data_files["Task"]) = 1
    /\ Len(data_files["JournalEntry"]) = 1

\* ---------------------------------------------------------------- sessions

\* calls on the session logger in one run
MaxLoggerCalls == 6

\* a session as start_session creates it
Session(session_type, t) ==
    [type |-> session_type, start_time |-> t, end_time |-> None, interactions |-> <<>>]

\* str(uuid.uuid4()): an id no session has
FreshId(lg) == IntToStr(Len(lg.sessions) + 1)

\* SessionLogger.start_session(session_type): nothing is written
start_session(lg, session_type, t) ==
    [raised |-> FALSE,
     returned |-> FreshId(lg),
     logger |-> [lg EXCEPT !.sessions =
                               DictSet(@, Item(FreshId(lg), "dict", Session(session_type, t))),
                           !.current_session = Str(FreshId(lg))]]

\* self.sessions with the session session_id replaced, written to sessions.json
Saved(lg, session_id, session) ==
    LET sessions == DictSet(lg.sessions, Item(session_id, "dict", session))
    IN [lg EXCEPT !.sessions = sessions, !.file = sessions]

\* SessionLogger.log_interaction(session_id, interaction)
log_interaction(lg, session_id, interaction, t) ==
    IF ~HasKey(lg.sessions, session_id)
    THEN [raised |-> TRUE, returned |-> None, logger |-> lg]
    ELSE [raised |-> FALSE,
          returned |-> None,
          logger |-> Saved(lg, session_id,
                       [Value(lg.sessions, session_id) EXCEPT !.interactions =
                           Append(@, DictUpdate(<<Item("timestamp", "str", t)>>, interaction))])]

\* faulty variant: current_session is cleared whichever session ends
end_session_ClearsAlways(lg, session_id, t) ==
    IF ~HasKey(lg.sessions, session_id)
    THEN [raised |-> TRUE, returned |-> None, logger |-> lg]
    ELSE [raised |-> FALSE,
          returned |-> None,
          logger |-> [Saved(lg, session_id,
                           [Value(lg.sessions, session_id) EXCEPT !.end_time = Str(t)])
                         EXCEPT !.current_session = None]]

\* SessionLogger.end_session(session_id)
end_session(lg, session_id, t) ==
    IF ~HasKey(lg.sessions, session_id)
    THEN [raised |-> TRUE, returned |-> None, logger |-> lg]
    ELSE [raised |-> FALSE,
          returned |-> None,
          logger |-> [Saved(lg, session_id,
                           [Value(lg.sessions, session_id) EXCEPT !.end_time = Str(t)])
                         EXCEPT !.current_session =
                                    IF @ = Str(session_id) THEN None ELSE @]]

\* the commands of main.py that the claim names, with their session types
Commands == {"check_in_morning", "analyze_patterns", "feedback"}

SessionType(name) ==
    CASE name = "check_in_morning" -> "morning_check_in"
      [] name = "analyze_patterns" -> "pattern_analysis"
      [] name = "feedback" -> "feedback"

\* what the command logs before it returns
Interaction(name) ==
    CASE name = "check_in_morning" -> <<Item("type", "str", "coaching")>>
      [] name = "analyze_patterns" -> <<Item("type", "str", "pattern_analysis")>>
      [] name = "feedback" -> <<Item("type", "str", "feedback")>>

\* history: a call on the session logger, with the logger as the call found it
LoggerCall(op, session_id, r) ==
    [op |-> op, session_id |-> session_id, raised |-> r.raised, before |-> session_logger]

Budget == now <= MaxLoggerCalls

NoCommand == command.stage \in {"idle", "returned"}

\* a command up to its try statement: start_session
StartCommand(name) ==
    /\ NoCommand
    /\ Budget
    /\ LET r == start_session(session_logger, SessionType(name), now)
       IN /\ session_logger' = r.logger
          /\ command' = [stage |-> "body", name |-> name, session_id |-> r.returned,
                         ended |-> 0, raised |-> FALSE]
          /\ trace' = <<LoggerCall("start_session", r.returned, r)>>
    /\ now' = now + 1
    /\ UNCHANGED <<prompt_versions, versions_file, last, calls, origin, coachVars, data_files>>

\* The body of the try statement.  It raises before it logs, or logs its
\* interaction and completes; the body of feedback starts with
\* update_system_prompt(content), content being a str.
CommandBody(raises) ==
    /\ command.stage = "body"
    /\ Budget
    /\ LET failed == IF command.name = "feedback"
                     THEN update_system_prompt(prompt_versions, versions_file,
                                               FeedbackText, now).raised
                     ELSE raises
           r == log_interaction(session_logger, command.session_id,
                                Interaction(command.name), now)
       IN IF failed
          THEN /\ command' = [command EXCEPT !.stage = "finally", !.raised = TRUE]
               /\ UNCHANGED <<session_logger, trace, now>>
          ELSE /\ session_logger' = r.logger
               /\ command' = [command EXCEPT !.stage = "finally", !.raised = r.raised]
               /\ trace' = <<LoggerCall("log_interaction", command.session_id, r)>>
               /\ now' = now + 1
    /\ UNCHANGED <<prompt_versions, versions_file, last, calls, origin, coachVars, data_files>>

\* the finally clause, after which the command returns or passes the
\* exception on
CommandFinally ==
    /\ command.stage = "finally"
    /\ LET r == end_session(session_logger, command.session_id, now)
       IN /\ session_logger' = r.logger
          /\ command' = [command EXCEPT !.stage = "returned", !.ended = @ + 1]
          /\ trace' = <<LoggerCall("end_session", command.session_id, r)>>
    /\ now' = now + 1
    /\ UNCHANGED <<prompt_versions, versions_file, last, calls, origin, coachVars, data_files>>

\* the session ids a caller of the logger can hold, and one it made up
SessionIds == Keys(session_logger.sessions) \cup {"0"}

\* the logger called directly, outside the commands
StartSession ==
    /\ NoCommand
    /\ Budget
    /\ LET r == start_session(session_logger, "interactive_chat", now)
       IN /\ session_logger' = r.logger
          /\ trace' = <<LoggerCall("start_session", r.returned, r)>>
    /\ now' = now + 1
    /\ UNCHANGED <<prompt_versions, versions_file, last, calls, origin, coachVars,
                   data_files, command>>

LogInteraction(session_id) ==
    /\ NoCommand
    /\ Budget
    /\ LET r == log_interaction(session_logger, session_id,
                                <<Item("type", "str", "chat_exchange")>>, now)
       IN /\ session_logger' = r.logger
          /\ trace' = <<LoggerCall("log_interaction", session_id, r)>>
    /\ now' = now + 1
    /\ UNCHANGED <<prompt_versions, versions_file, last, calls, origin, coachVars,
                   data_files, command>>

EndSession(session_id) ==
    /\ NoCommand
    /\ Budget
    /\ LET r == end_session(session_logger, session_id, now)
       IN /\ session_logger' = r.logger
          /\ trace' = <<LoggerCall("end_session", session_id, r)>>
    /\ now' = now + 1
    /\ UNCHANGED <<prompt_versions, versions_file, last, calls, origin, coachVars,
                   data_files, command>>

NextSessions ==
    \/ \E name \in Commands : StartCommand(name)
    \/ \E raises \in BOOLEAN : CommandBody(raises)
    \/ CommandFinally
    \/ StartSession
    \/ \E session_id \in SessionIds : LogInteraction(session_id)
    \/ \E session_id \in SessionIds : EndSession(session_id)

SpecSessions == InitCoach /\ [][NextSessions]_vars

SessionOf(lg, session_id) == Value(lg.sessions, session_id)

\* the sessions other than session_id are as the last call found them
OthersKept(session_id) ==
    /\ Keys(session_logger.sessions) = Keys(trace[1].before.sessions)
    /\ \A k \in Keys(session_logger.sessions) \ {session_id} :
          SessionOf(session_logger, k) = SessionOf(trace[1].before, k)

\* C27: a command that started a session has ended that session exactly once
\* when it returns, whether its body completed or raised, and never before
\* its finally clause; after an end_session call the session has an end_time
\* that is not None, and current_session is None if it was the ended session
\* and is unchanged otherwise; a logged interaction goes to the end of its
\* session's interactions, which no call reorders or drops.
C27_SessionEndedOnce ==
    /\ command.stage \in {"body", "finally"} =>
          /\ command.ended = 0
          /\ HasKey(session_logger.sessions, command.session_id)
          /\ SessionOf(session_logger, command.session_id).end_time = None
    /\ command.stage = "returned" =>
          /\ command.ended = 1
          /\ HasKey(session_logger.sessions, command.session_id)
          /\ SessionOf(session_logger, command.session_id).end_time # None
    /\ trace # <<>> /\ ~trace[1].raised =>
          LET call == trace[1]
              id == call.session_id
              old == SessionOf(call.before, id)
              new == SessionOf(session_logger, id)
          IN /\ call.op = "end_session" =>
                   /\ new.end_time # None
                   /\ new.interactions = old.interactions
                   /\ session_logger.current_session =
                         IF call.before.current_session = Str(id)
                         THEN None ELSE call.before.current_session
                   /\ OthersKept(id)
             /\ call.op = "log_interaction" =>
                   /\ Len(new.interactions) = Len(old.interactions) + 1
                   /\ SubSeq(new.interactions, 1, Len(old.interactions)) = old.interactions
                   /\ new.end_time = old.end_time
                   /\ session_logger.current_session = call.before.current_session
                   /\ OthersKept(id)
    /\ \A k \in Keys(session_logger.sessions) :
          \A i, j \in DOMAIN SessionOf(session_logger, k).interactions :
              i < j => Value(SessionOf(session_logger, k).interactions[i], "timestamp")
                         < Value(SessionOf(session_logger, k).interactions[j], "timestamp")

\* the feedback command has returned: its body raised, nothing was logged and
\* its session is ended and no longer current
C27_Witness ==
    /\ command.stage = "returned"
    /\ command.name = "feedback"
    /\ command.raised
    /\ command.ended = 1
    /\ SessionOf(session_logger, command.session_id).interactions = <<>>
    /\ SessionOf(session_logger, command.session_id).end_time # None
    /\ session_logger.current_session = None

\* a command whose body completed: one interaction, session ended
C27_Completed ==
    /\ command.stage = "returned"
    /\ ~command.raised
    /\ Len(SessionOf(session_logger, command.session_id).interactions) = 1
    /\ SessionOf(session_logger, command.session_id).end_time # None

\* a session that is not the current one ends: current_session stays
C27_OtherSessionEnded ==
    /\ trace # <<>>
    /\ trace[1].op = "end_session"
    /\ ~trace[1].raised
    /\ trace[1].before.current_session # Str(trace[1].session_id)
    /\ session_logger.current_session # None
    /\ Len(SessionOf(session_logger, trace[1].session_id).interactions) = 2

\* ---------------------------------------------------------------- the assistant memory

\* add_to_assistant_memory calls in one run of SpecMemory
MaxAdds == 101

\* the item the chat command adds when a conversation ends, the n-th
\* conversation having n exchanges
ChatSession(n) ==
    <<Item("type", "str", "chat_session"),
      Item("topics", "list", <<>>),
      Item("messages_count", "int", n),
      Item("session_id", "str", IntToStr(n))>>

\* add_to_assistant_memory(memory_item); the trace keeps the items added
AddToAssistantMemory(memory_item) ==
    /\ Len(trace) < MaxAdds
    /\ assistant' = add_to_assistant_memory(assistant, memory_item, now)
    /\ context_file' = add_to_assistant_memory(assistant, memory_item, now)
    /\ trace' = Append(trace, [op |-> "add_to_assistant_memory", item |-> memory_item])
    /\ now' = now + 1
    /\ UNCHANGED <<prompt_versions, versions_file, last, calls, origin>>
    /\ UNCHANGED <<context, effectiveness, coaching_style, last_reflection,
                   adaptation_history, analysis, applies>>
    /\ UNCHANGED <<data_files, session_logger, command>>

NextMemory == AddToAssistantMemory(ChatSession(Len(trace) + 1))

SpecMemory == InitCoach /\ [][NextMemory]_vars

\* the memory item is the added item with a timestamp
Remembers(memory_item, added) ==
    /\ HasKey(memory_item, "timestamp")
    /\ \A i \in DOMAIN added : Holds(memory_item, added[i].key, added[i].value)
    /\ Len(memory_item) = Len(added) + 1

\* C28: after k add_to_assistant_memory calls the memory holds min(k, 100)
\* items, the most recently added ones in the order in which they were added,
\* each with a timestamp, and the context file holds what the memory holds.
C28_LastHundred ==
    LET k == Len(trace)
        kept == IF k < 100 THEN k ELSE 100
    IN /\ Len(assistant.memory) <= 100
       /\ Len(assistant.memory) = kept
       /\ \A i \in 1..kept :
             /\ i \in DOMAIN assistant.memory
             /\ Remembers(assistant.memory[i], trace[k - kept + i].item)
       /\ context_file = assistant

\* the 101st item is added: the first one is dropped
C28_Witness ==
    /\ Len(trace) = 101
    /\ Len(assistant.memory) = 100
    /\ Holds(assistant.memory[1], "messages_count", 2)
    /\ Holds(assistant.memory[100], "messages_count", 101)
    /\ Len(context_file.memory) = 100

\* ---------------------------------------------------------------- the default prompt

\* the whole text of _get_default_system_prompt, of which DefaultSystemPrompt
\* is the first line
WholeDefaultSystemPrompt ==
    DefaultSystemPrompt \o "\n"
      \o "Your role is to:\n"
      \o "1. Provide actionable insights based on the user's tasks, check-ins, and journal entries\n"
      \o "2. Help identify patterns in productivity and procrastination\n"
      \o "3. Suggest improvements to their workflow\n"
      \o "4. Offer encouragement and accountability\n"
      \o "5. Help break down complex tasks into manageable steps\n"
      \o "\n"
      \o "Be concise, practical, and empathetic in your responses."

\* the versions.json a PromptBuilder writes on a directory without one
DefaultFile == save_prompt_versions(1 :> Entry(WholeDefaultSystemPrompt, 0, <<>>))

\* the categories of _analyze_prompt_effectiveness
PromptCategories == {"morning_prompt", "evening_prompt", "task_breakdown_prompt"}

\* change-sets over these categories: the one of the tests, reports of the
\* analyzer as reflect_on_coaching passes them on (without suggested_changes),
\* improvements whose additions and removals name text of the prompt, and
\* the empty change-set
CoachingChanges ==
    {TestChanges, ReportChanges, Dict(<<>>)}
      \cup {Dict(analyze_prompt_effectiveness(recent_context)) :
              recent_context \in HistorySnapshots}
      \cup {Dict(<<Item("evening_prompt", "dict",
                        Improvements(6, <<"depth">>,
                            <<Item("depth", "dict",
                                   IssueChanges(<<"Use morning_prompt">>, <<"coach ">>))>>)),
                   Item("task_breakdown_prompt", "dict", Report(7, <<"Tasks remain too vague">>)),
                   Item("morning_prompt", "dict",
                        Improvements(8, <<"tone">>,
                            <<Item("tone", "dict",
                                   IssueChanges(<<"evening_prompt">>, <<"You are ">>))>>))>>)}

InitDefault ==
    /\ prompt_versions = new_prompt_builder(DefaultFile, 0).versions
    /\ versions_file = new_prompt_builder(DefaultFile, 0).file
    /\ now = 1
    /\ last = Call("construct", Dict(<<>>), 0, FALSE, TRUE)
    /\ calls = 0
    /\ origin = (1 :> Call("construct", Dict(<<>>), 0, FALSE, TRUE))
    /\ context = EmptyContext
    /\ effectiveness = NotAnalyzed
    /\ NewCoach

NextDefault ==
    \/ \E changes \in CoachingChanges : UpdateSystemPrompt(changes)
    \/ \E version \in RollbackArgs : RollbackPrompt(version)

SpecDefault == InitDefault /\ [][NextDefault]_vars

\* C29: from a store holding the default prompt, after any rollbacks and any
\* updates whose categories are among morning_prompt, evening_prompt and
\* task_breakdown_prompt, every version's text is the default prompt; no
\* category name occurs in the current text, and no such update fails, with
\* or without suggested_changes.
C29_DefaultPromptKept ==
    /\ \A v \in DOMAIN prompt_versions : prompt_versions[v].prompt = WholeDefaultSystemPrompt
    /\ \A prompt_type \in PromptCategories :
          ~Contains(prompt_type, get_current_system_prompt(prompt_versions))
    /\ last.op = "update_system_prompt" => ~last.raised /\ last.wrote
    /\ DOMAIN prompt_versions = 1..(1 + calls)

\* a report without suggested_changes, the change-set of the tests and a
\* rollback have each made a version
C29_Witness ==
    /\ \E v \in DOMAIN origin :
          /\ origin[v].op = "update_system_prompt"
          /\ origin[v].changes # Dict(<<>>)
          /\ \A i \in DOMAIN origin[v].changes.value :
                ~HasKey(origin[v].changes.value[i].value, "suggested_changes")
          /\ prompt_versions[v].changes = origin[v].changes.value
    /\ \E v \in DOMAIN origin :
          origin[v].op = "update_system_prompt" /\ origin[v].changes = TestChanges
    /\ \E v \in DOMAIN origin : origin[v].op = "rollback_prompt"
    /\ Len(get_current_system_prompt(prompt_versions)) = 445

\* ---------------------------------------------------------------- stored tasks

\* the tasks in the store in one run of SpecStored
MaxStored == 3

\* the days get_recent_context looks back
RecentDays == 7

\* a task in the store: its status, its subtasks and the days since created_at
StoredTask(status, subtasks, age) == [status |-> status, subtasks |-> subtasks, age |-> age]

\* faulty variant: the snapshot carries the subtasks
get_recent_tasks_WithSubtasks(stored, days) ==
    LET recent == SelectSeq(stored, LAMBDA task : task.age <= days)
    IN [i \in DOMAIN recent |-> Task(recent[i].status, recent[i].subtasks)]

\* ContextManager._get_recent_tasks(start_date): id, title, status, priority
\* and created_at of the tasks created since start_date
get_recent_tasks(stored, days) ==
    LET recent == SelectSeq(stored, LAMBDA task : task.age <= days)
    IN [i \in DOMAIN recent |-> RecentTask(recent[i].status)]

\* the tasks of the analyzer's samples, created yesterday or a month ago
StoredKinds ==
    {StoredTask(TaskKinds[k].status, TaskKinds[k].subtasks, age) :
        k \in DOMAIN TaskKinds, age \in {1, 30}}

StoredTasks == UNION {[1..n -> StoredKinds] : n \in 0..MaxStored}

\* reflect_on_coaching() on a store holding `stored` and nothing else
ReflectOnStored(stored) ==
    /\ trace = <<>>
    /\ Reflect([check_ins |-> <<>>,
                tasks |-> get_recent_tasks(stored, RecentDays),
                journal_entries |-> <<>>])
    /\ trace' = <<[op |-> "reflect_on_coaching", stored |-> stored]>>

NextStored == \E stored \in StoredTasks : ReflectOnStored(stored)

SpecStored == InitCoach /\ [][NextStored]_vars

\* the reflection proposes prompt changes with a task_breakdown_prompt entry
BreakdownProposed ==
    /\ Reflected
    /\ HasKey(ProposedAdaptations, "prompt_changes")
    /\ HasKey(Value(ProposedAdaptations, "prompt_changes"), "task_breakdown_prompt")

BreakdownEntry == Value(Value(ProposedAdaptations, "prompt_changes"), "task_breakdown_prompt")

\* C30: whatever tasks are stored, the task_breakdown_prompt entry of the
\* prompt_changes of a reflection, when there is one, has the score 1.0 and
\* no issues: the task snapshots carry no subtasks.
C30_BreakdownNeverFaulted ==
    BreakdownProposed =>
        /\ Holds(BreakdownEntry, "current_score", 10)
        /\ Holds(BreakdownEntry, "issues", <<>>)

\* three recent tasks in progress with vague subtasks are stored: the entry
\* is there, with the full score
C30_Witness ==
    /\ trace # <<>>
    /\ Len(trace[1].stored) = 3
    /\ \A i \in 1..3 :
          /\ trace[1].stored[i].status = "in_progress"
          /\ trace[1].stored[i].age = 1
          /\ Vague(trace[1].stored[i])
    /\ Len(context.tasks) = 3
    /\ BreakdownProposed
    /\ Value(BreakdownEntry, "current_score") = 10
====
